---- MODULE Spec2Model ----
(***************************************************************************)
(* A model of ProfoundNetworks/bsearch: the line index (generateLineIndex, *)
(* NewIndexOptions, LoadIndex, Index.Write, blockEntryLE, blockEntryLT)    *)
(* and the Searcher built on it (NewSearcherOptions, LinesN, Line, Lines,   *)
(* Close).  Files are byte sequences; a byte is its numeric value, and a    *)
(* Go offset o into a slice is position o + 1 of the TLA+ sequence.        *)
(***************************************************************************)
EXTENDS Integers, Sequences, FiniteSets, TLC

\* ------------------------------------------------------------------ bounds

\* Most lines of a generated dataset.
MaxLines == 3
\* Largest line limit n handed to LinesN.
MaxN == 2
\* Last second of the clock that stamps modification times.
MaxClock == 1
\* Most lines of a dataset handed to the index builder alone.
MaxBuildLines == 4
\* Most bytes of entry lines left in a sidecar that is cut short.
MaxCut == 24
\* Most entries of a List handed to the block lookups alone.
MaxEntries == 4

\* ------------------------------------------------------- program constants

indexVersion == 4
defaultBlocksize == 2048
recordSeparator == 10
fieldSeparator == 9

\* The delimiters deriveDelimiter knows for .csv and .psv names.
Comma == <<44>>
Pipe == <<124>>

\* ------------------------------------------------------------- byte slices

SetMin(S) == CHOOSE x \in S : \A y \in S : x <= y

\* buf[lo:hi] of Go, offsets counted from 0.
Slice(buf, lo, hi) == SubSeq(buf, lo + 1, hi)

\* buf[lo:] of Go.
SliceFrom(buf, lo) == SubSeq(buf, lo + 1, Len(buf))

\* The first position at which a and b differ, 0 when one is a prefix of the
\* other.
firstDiff(a, b) ==
    IF \E i \in 1..Len(a) : i <= Len(b) /\ a[i] # b[i]
    THEN SetMin({i \in 1..Len(a) : i <= Len(b) /\ a[i] # b[i]})
    ELSE 0

compareAt(a, b, i) ==
    IF i > 0 THEN (IF a[i] < b[i] THEN -1 ELSE 1)
    ELSE IF Len(a) < Len(b) THEN -1
    ELSE IF Len(a) > Len(b) THEN 1
    ELSE 0

\* bytes.Compare / strings.Compare: -1, 0 or 1 by lexicographic byte order.
Compare(a, b) == compareAt(a, b, firstDiff(a, b))

\* bytes.HasPrefix.
HasPrefix(str, p) == Len(p) <= Len(str) /\ SubSeq(str, 1, Len(p)) = p

\* bytes.IndexByte: offset of the first c in str, or -1.
IndexByte(str, c) ==
    IF \E i \in 1..Len(str) : str[i] = c
    THEN SetMin({i \in 1..Len(str) : str[i] = c}) - 1
    ELSE -1

\* bytes.Index: offset of the first occurrence of sep in str, or -1.
Index(str, sep) ==
    IF \E i \in 0..(Len(str) - Len(sep)) : Slice(str, i, i + Len(sep)) = sep
    THEN SetMin({i \in 0..(Len(str) - Len(sep)) : Slice(str, i, i + Len(sep)) = sep})
    ELSE -1

\* strings.Split(str, sep) for a non-empty sep; d is the first sep's offset.
RECURSIVE Split(_, _)
splitAt(str, sep, d) ==
    IF d = -1 THEN <<str>>
    ELSE <<Slice(str, 0, d)>> \o Split(SliceFrom(str, d + Len(sep)), sep)

Split(str, sep) == splitAt(str, sep, Index(str, sep))

\* The first d bytes of str, or all of it when d is -1.
cutAt(str, d) == IF d > -1 THEN Slice(str, 0, d) ELSE str

\* bytes.SplitN(line, delim, 2)[0]: the bytes before the first delimiter, or
\* the whole line when it holds none.
SplitKey(line, delim) == cutAt(line, Index(line, delim))

\* The tokens bufio.ScanLines yields for content: the lines without their
\* newline, and a final unterminated line when it is not empty.
RECURSIVE ScanLines(_)
scanAt(content, i) ==
    IF i = -1 THEN <<content>>
    ELSE <<Slice(content, 0, i)>> \o ScanLines(SliceFrom(content, i + 1))

ScanLines(content) ==
    IF content = <<>> THEN <<>>
    ELSE scanAt(content, IndexByte(content, recordSeparator))

\* --------------------------------------------------------------- encodings

\* The two lower-case hexadecimal digits of a byte, and the byte of two.
hexDigit(v) == IF v < 10 THEN 48 + v ELSE 87 + v
hexValue(c) == IF c >= 48 /\ c <= 57 THEN c - 48
               ELSE IF c >= 97 /\ c <= 102 THEN c - 87
               ELSE -1
hexByte(b) == <<hexDigit(b \div 16), hexDigit(b % 16)>>

\* b is a UTF-8 continuation byte between lo and hi.
contIn(str, i, lo, hi) == i <= Len(str) /\ str[i] >= lo /\ str[i] <= hi

\* The length of the valid multi-byte UTF-8 sequence that starts at str[i],
\* 0 when none does (utf8.DecodeRune gives RuneError there).
utf8Len(str, i) ==
    IF str[i] >= 194 /\ str[i] <= 223
    THEN (IF contIn(str, i + 1, 128, 191) THEN 2 ELSE 0)
    ELSE IF str[i] >= 224 /\ str[i] <= 239
    THEN (IF /\ contIn(str, i + 1, IF str[i] = 224 THEN 160 ELSE 128,
                       IF str[i] = 237 THEN 159 ELSE 191)
             /\ contIn(str, i + 2, 128, 191)
          THEN 3 ELSE 0)
    ELSE IF str[i] >= 240 /\ str[i] <= 244
    THEN (IF /\ contIn(str, i + 1, IF str[i] = 240 THEN 144 ELSE 128,
                       IF str[i] = 244 THEN 143 ELSE 191)
             /\ contIn(str, i + 2, 128, 191)
             /\ contIn(str, i + 3, 128, 191)
          THEN 4 ELSE 0)
    ELSE 0

\* strconv.Quote's escape of one byte that is not part of a multi-byte
\* character: the quote and the backslash behind a backslash, the control
\* characters by letter, other non-printable bytes and the bytes that are not
\* valid UTF-8 as \xhh.
quoteByte(b) ==
    IF b = 34 \/ b = 92 THEN <<92, b>>
    ELSE IF b = 7 THEN <<92, 97>>
    ELSE IF b = 8 THEN <<92, 98>>
    ELSE IF b = 12 THEN <<92, 102>>
    ELSE IF b = 10 THEN <<92, 110>>
    ELSE IF b = 13 THEN <<92, 114>>
    ELSE IF b = 9 THEN <<92, 116>>
    ELSE IF b = 11 THEN <<92, 118>>
    ELSE IF b >= 32 /\ b <= 126 THEN <<b>>
    ELSE <<92, 120>> \o hexByte(b)

\* A valid multi-byte character is written as it is (the model's keys hold
\* no unprintable character above U+007F, which Quote writes as \u escapes).
RECURSIVE quoteBytes(_, _)
quoteBytes(str, i) ==
    IF i > Len(str) THEN <<>>
    ELSE IF utf8Len(str, i) > 0
    THEN SubSeq(str, i, i + utf8Len(str, i) - 1)
             \o quoteBytes(str, i + utf8Len(str, i))
    ELSE quoteByte(str[i]) \o quoteBytes(str, i + 1)

\* strconv.Quote(key).
Quote(str) == <<34>> \o quoteBytes(str, 1) \o <<34>>

\* The byte a letter after a backslash stands for, -1 for none.
unquoteLetter(c) ==
    IF c = 34 \/ c = 92 THEN c
    ELSE IF c = 97 THEN 7
    ELSE IF c = 98 THEN 8
    ELSE IF c = 102 THEN 12
    ELSE IF c = 110 THEN 10
    ELSE IF c = 114 THEN 13
    ELSE IF c = 116 THEN 9
    ELSE IF c = 118 THEN 11
    ELSE -1

\* The bytes of a quoted string's inside from position i on; <<-1>> at the
\* end marks a syntax error.  A raw byte that is not valid UTF-8 comes out as
\* U+FFFD; of the escapes, those that Quote above writes are read.
RECURSIVE unquoteBytes(_, _)
unquoteBytes(str, i) ==
    IF i > Len(str) THEN <<>>
    ELSE IF str[i] = 34 \/ str[i] = 10 THEN <<-1>>
    ELSE IF str[i] >= 128
    THEN (IF utf8Len(str, i) > 0
          THEN SubSeq(str, i, i + utf8Len(str, i) - 1)
                   \o unquoteBytes(str, i + utf8Len(str, i))
          ELSE <<239, 191, 189>> \o unquoteBytes(str, i + 1))
    ELSE IF str[i] # 92 THEN <<str[i]>> \o unquoteBytes(str, i + 1)
    ELSE IF i + 1 > Len(str) THEN <<-1>>
    ELSE IF str[i + 1] = 120
    THEN (IF i + 3 <= Len(str) /\ hexValue(str[i + 2]) >= 0 /\ hexValue(str[i + 3]) >= 0
          THEN <<16 * hexValue(str[i + 2]) + hexValue(str[i + 3])>>
                   \o unquoteBytes(str, i + 4)
          ELSE <<-1>>)
    ELSE IF unquoteLetter(str[i + 1]) >= 0
    THEN <<unquoteLetter(str[i + 1])>> \o unquoteBytes(str, i + 2)
    ELSE <<-1>>

unquoted(bytes) ==
    IF \E i \in 1..Len(bytes) : bytes[i] = -1 THEN [err |-> TRUE, str |-> <<>>]
    ELSE [err |-> FALSE, str |-> bytes]

\* strconv.Unquote of a double-quoted string: its bytes, or an error.
Unquote(str) ==
    IF Len(str) < 2 \/ str[1] # 34 \/ str[Len(str)] # 34
    THEN [err |-> TRUE, str |-> <<>>]
    ELSE unquoted(unquoteBytes(SubSeq(str, 2, Len(str) - 1), 1))

\* The decimal digits of a natural number.
RECURSIVE digits(_)
digits(n) == IF n < 10 THEN <<48 + n>> ELSE digits(n \div 10) \o <<48 + (n % 10)>>

\* fmt's %d of an integer.
FormatInt(n) == IF n < 0 THEN <<45>> \o digits(0 - n) ELSE digits(n)

RECURSIVE digitsValue(_, _, _)
digitsValue(str, i, acc) ==
    IF i > Len(str) THEN acc
    ELSE digitsValue(str, i + 1, 10 * acc + (str[i] - 48))

allDigits(str) == str # <<>> /\ \A i \in 1..Len(str) : str[i] >= 48 /\ str[i] <= 57

\* strconv.ParseInt(str, 10, 64): the integer, or an error.
ParseInt(str) ==
    IF str # <<>> /\ (str[1] = 45 \/ str[1] = 43)
    THEN (IF allDigits(Tail(str))
          THEN [err |-> FALSE,
                int |-> IF str[1] = 45 THEN 0 - digitsValue(Tail(str), 1, 0)
                        ELSE digitsValue(Tail(str), 1, 0)]
          ELSE [err |-> TRUE, int |-> 0])
    ELSE IF allDigits(str) THEN [err |-> FALSE, int |-> digitsValue(str, 1, 0)]
    ELSE [err |-> TRUE, int |-> 0]

\* The character of a base64 sextet, and the sextet of a character.
b64Char(v) ==
    IF v < 26 THEN 65 + v
    ELSE IF v < 52 THEN 71 + v
    ELSE IF v < 62 THEN v - 4
    ELSE IF v = 62 THEN 43
    ELSE 47
b64Value(c) ==
    IF c >= 65 /\ c <= 90 THEN c - 65
    ELSE IF c >= 97 /\ c <= 122 THEN c - 71
    ELSE IF c >= 48 /\ c <= 57 THEN c + 4
    ELSE IF c = 43 THEN 62
    ELSE IF c = 47 THEN 63
    ELSE 0

\* The four characters that encode a group of n bytes of value v.
b64Group(v, n) ==
    <<b64Char(v \div 262144), b64Char((v \div 4096) % 64),
      IF n > 1 THEN b64Char((v \div 64) % 64) ELSE 61,
      IF n > 2 THEN b64Char(v % 64) ELSE 61>>

byteAt(str, i) == IF i <= Len(str) THEN str[i] ELSE 0

\* The JSON form of a []byte: its standard base64 text.
RECURSIVE b64Encode(_, _)
b64Encode(str, i) ==
    IF i > Len(str) THEN <<>>
    ELSE b64Group(65536 * str[i] + 256 * byteAt(str, i + 1) + byteAt(str, i + 2),
                  IF Len(str) - i + 1 > 3 THEN 3 ELSE Len(str) - i + 1)
         \o b64Encode(str, i + 3)

\* The bytes four base64 characters stand for, by their value v and the
\* number of padding characters.
b64Bytes(v, pad) ==
    SubSeq(<<v \div 65536, (v \div 256) % 256, v % 256>>, 1, 3 - pad)

b64Pad(str, i) ==
    IF str[i + 2] = 61 THEN 2 ELSE IF str[i + 3] = 61 THEN 1 ELSE 0

RECURSIVE b64Decode(_, _)
b64Decode(str, i) ==
    IF i + 3 > Len(str) THEN <<>>
    ELSE b64Bytes(262144 * b64Value(str[i]) + 4096 * b64Value(str[i + 1])
                  + 64 * b64Value(str[i + 2]) + b64Value(str[i + 3]),
                  b64Pad(str, i))
         \o b64Decode(str, i + 4)

\* encoding/json's form of one byte of a string that is not part of a
\* multi-byte character: the quote and the backslash escaped, the control
\* characters and <, >, & as \u00hh (or by letter), and a byte that is not
\* valid UTF-8 as the replacement character U+FFFD.
jsonByte(b) ==
    IF b = 34 \/ b = 92 THEN <<92, b>>
    ELSE IF b = 10 THEN <<92, 110>>
    ELSE IF b = 13 THEN <<92, 114>>
    ELSE IF b = 9 THEN <<92, 116>>
    ELSE IF b < 32 \/ b = 60 \/ b = 62 \/ b = 38
    THEN <<92, 117, 48, 48>> \o hexByte(b)
    ELSE IF b < 128 THEN <<b>>
    ELSE <<92, 117, 102, 102, 102, 100>>

RECURSIVE jsonBytes(_, _)
jsonBytes(str, i) ==
    IF i > Len(str) THEN <<>>
    ELSE IF utf8Len(str, i) > 0
    THEN SubSeq(str, i, i + utf8Len(str, i) - 1)
             \o jsonBytes(str, i + utf8Len(str, i))
    ELSE jsonByte(str[i]) \o jsonBytes(str, i + 1)

\* The JSON text of a string.
jsonString(str) == <<34>> \o jsonBytes(str, 1) \o <<34>>

\* The UTF-8 bytes of the code point \u with hexadecimal digits h1..h4.
utf8(cp) ==
    IF cp < 128 THEN <<cp>>
    ELSE IF cp < 2048 THEN <<192 + (cp \div 64), 128 + (cp % 64)>>
    ELSE <<224 + (cp \div 4096), 128 + ((cp \div 64) % 64), 128 + (cp % 64)>>

\* The string a JSON text's inside from position i on stands for.
RECURSIVE jsonDecode(_, _)
jsonDecode(str, i) ==
    IF i > Len(str) THEN <<>>
    ELSE IF str[i] # 92 THEN <<str[i]>> \o jsonDecode(str, i + 1)
    ELSE IF str[i + 1] = 117
    THEN utf8(4096 * hexValue(str[i + 2]) + 256 * hexValue(str[i + 3])
              + 16 * hexValue(str[i + 4]) + hexValue(str[i + 5]))
         \o jsonDecode(str, i + 6)
    ELSE <<unquoteLetter(str[i + 1])>> \o jsonDecode(str, i + 2)

\* The string of a JSON text.
jsonParse(str) == jsonDecode(SubSeq(str, 2, Len(str) - 1), 1)

\* ------------------------------------------------------------------- paths

\* A path is <<directory, basename>>; the empty path is <<>>.
NoPath == <<>>
Base(p) == IF p = NoPath THEN "" ELSE p[2]
Dir(p) == IF p = NoPath THEN "." ELSE p[1]
Join(dir, name) == <<dir, name>>

CsvNames == {"foo.csv", "bar.csv"}
PsvNames == {"foo.psv"}

\* deriveDelimiter: the delimiter for a .csv or .psv name, else an error.
deriveDelimiter(p) ==
    IF Base(p) \in CsvNames THEN [err |-> "nil", delim |-> Comma]
    ELSE IF Base(p) \in PsvNames THEN [err |-> "nil", delim |-> Pipe]
    ELSE [err |-> "ErrUnknownDelimiter", delim |-> <<>>]

\* ------------------------------------------------------------------- index

\* The zero Index, as Go's `Index{}` or a JSON header with every field absent.
ZeroIndex ==
    [Blocksize |-> 0, Delimiter |-> <<>>, Epoch |-> 0, Filepath |-> NoPath,
     Filename |-> "", Header |-> FALSE, KeysIndexFirst |-> FALSE,
     KeysUnique |-> FALSE, Length |-> 0, List |-> <<>>, Version |-> 0,
     HeaderFields |-> <<>>]

\* The locals of generateLineIndex before its loop, with the index fields the
\* loop assigns (Header, HeaderFields, KeysUnique).
genStart(index) ==
    [list |-> <<>>, blockPosition |-> 0, blockNumber |-> -1, prevKey |-> <<>>,
     prevLine |-> <<>>, firstOffset |-> -1, KeysUnique |-> TRUE,
     skipHeader |-> index.Header, Header |-> index.Header,
     HeaderFields |-> index.HeaderFields, err |-> "nil"]

\* The second-line heuristic: a key below its predecessor is taken for the
\* first data line after a header.
implicitHeader(g) == g.blockNumber = 0 /\ ~g.Header

\* The offset an entry gets: the first occurrence of a repeated key.
entryOffset(g, dupKeyBlock) ==
    IF dupKeyBlock THEN g.firstOffset ELSE g.blockPosition

lastOffset(list) == IF Len(list) > 0 THEN list[Len(list)].Offset ELSE -1

\* An append that does not look at the last entry.
appendAlways(list, key, offset) == Append(list, [Key |-> key, Offset |-> offset])

\* Append the entry unless the last entry already has its offset.
appendEntry(list, key, offset) ==
    IF lastOffset(list) # offset
    THEN Append(list, [Key |-> key, Offset |-> offset])
    ELSE list

\* "Add the first line of each block to our index".
addEntry(g, key, dupKeyBlock, Blocksize) ==
    IF g.blockPosition \div Blocksize > g.blockNumber
    THEN [g EXCEPT !.list = appendEntry(@, key, entryOffset(g, dupKeyBlock)),
                   !.blockNumber = g.blockPosition \div Blocksize]
    ELSE g

\* The end of the loop body: remember the key, its offset and the line, and
\* move to the next line.
endOfLine(g, line, key, dupKeyBlock) ==
    [g EXCEPT !.firstOffset = IF dupKeyBlock THEN @ ELSE g.blockPosition,
              !.prevKey = IF dupKeyBlock THEN @ ELSE key,
              !.prevLine = IF g.blockNumber = 0 THEN line ELSE @,
              !.blockPosition = @ + Len(line) + 1]

indexLine(g, line, key, dupKeyBlock, Blocksize) ==
    endOfLine(addEntry(g, key, dupKeyBlock, Blocksize), line, key, dupKeyBlock)

\* "Check key ordering", cmp being bytes.Compare(prevKey, key), and what the
\* body does then.
checkOrder(g, line, key, cmp, Blocksize, Delimiter) ==
    IF cmp = 1 /\ ~implicitHeader(g) THEN [g EXCEPT !.err = "KeySortViolation"]
    ELSE indexLine(
           IF cmp = 1
           THEN [g EXCEPT !.Header = TRUE,
                          !.HeaderFields = Split(g.prevLine, Delimiter),
                          !.list = <<>>,
                          !.blockNumber = -1]
           ELSE IF cmp = 0 THEN [g EXCEPT !.KeysUnique = FALSE]
           ELSE g,
           line, key, cmp = 0, Blocksize)

keyedLine(g, line, key, Blocksize, Delimiter) ==
    checkOrder(g, line, key, Compare(g.prevKey, key), Blocksize, Delimiter)

\* One pass of generateLineIndex's loop body over a scanned line.
lineStep(g, line, Blocksize, Delimiter) ==
    IF g.skipHeader
    THEN [g EXCEPT !.skipHeader = FALSE,
                   !.blockPosition = @ + Len(line) + 1,
                   !.HeaderFields = Split(line, Delimiter)]
    ELSE keyedLine(g, line, SplitKey(line, Delimiter), Blocksize, Delimiter)

\* The scanner's buffer holds Blocksize bytes: a line of that length or more
\* ends the scan with bufio.ErrTooLong.
tokenTooLong(line, Blocksize) == Len(line) >= Blocksize

\* `for scanner.Scan() { ... }` over the lines from the i-th on.
RECURSIVE genLoop(_, _, _, _, _)
genLoop(g, lines, i, Blocksize, Delimiter) ==
    IF g.err # "nil" \/ i > Len(lines) THEN g
    ELSE IF tokenTooLong(lines[i], Blocksize)
    THEN [g EXCEPT !.err = "ErrTooLong"]
    ELSE CHOOSE r \in {genLoop(g1, lines, i + 1, Blocksize, Delimiter) :
                       g1 \in {lineStep(g, lines[i], Blocksize, Delimiter)}} : TRUE

\* What generateLineIndex returns once its loop has ended in g.
genResult(index, g) ==
    IF g.err # "nil" THEN [err |-> g.err, index |-> ZeroIndex]
    ELSE IF Len(g.list) = 0 THEN [err |-> "ErrIndexEmpty", index |-> ZeroIndex]
    ELSE [err |-> "nil",
          index |-> [index EXCEPT !.KeysUnique = g.KeysUnique,
                                  !.Header = g.Header,
                                  !.HeaderFields = g.HeaderFields,
                                  !.KeysIndexFirst = TRUE,
                                  !.List = g.list,
                                  !.Length = Len(g.list)]]

\* generateLineIndex(index, reader): the index filled in, or an error.
generateLineIndex(index, content) ==
    genResult(index, genLoop(genStart(index), ScanLines(content), 1,
                             index.Blocksize, index.Delimiter))

\* The options of NewIndexOptions; Blocksize 0 and an empty Delimiter are unset.
IndexOptions(bs, delim, hdr) == [Blocksize |-> bs, Delimiter |-> delim, Header |-> hdr]

\* The Index NewIndexOptions hands to generateLineIndex.
startIndex(p, opt, delim, mtime) ==
    [ZeroIndex EXCEPT
       !.Blocksize = IF opt.Blocksize > 0 THEN opt.Blocksize ELSE defaultBlocksize,
       !.Delimiter = delim,
       !.Epoch = mtime,
       !.Filepath = p,
       !.Filename = Base(p),
       !.Header = opt.Header,
       !.Version = indexVersion]

newIndexWith(p, opt, content, mtime, dd) ==
    IF dd.err # "nil" THEN [err |-> dd.err, index |-> ZeroIndex]
    ELSE generateLineIndex(startIndex(p, opt, dd.delim, mtime), content)

\* NewIndexOptions(path, opt) on a dataset with the given content and mtime.
NewIndexOptions(p, opt, content, mtime) ==
    newIndexWith(p, opt, content, mtime,
                 IF Len(opt.Delimiter) = 0 THEN deriveDelimiter(p)
                 ELSE [err |-> "nil", delim |-> opt.Delimiter])

\* ------------------------------------------------------------ index lookup

NoEntry == [Key |-> <<>>, Offset |-> 0]

\* A midpoint that is never moved off begin.
midpointPlain(begin, end) == ((end - begin) \div 2) + begin

\* `mid = ((end - begin) / 2) + begin; if mid == begin { mid++ }`.
midpoint(begin, end) ==
    IF (end - begin) \div 2 = 0 THEN begin + 1 ELSE ((end - begin) \div 2) + begin

\* The loop of blockEntryLE over list[begin..end], indexes counted from 0.
RECURSIVE leLoop(_, _, _, _)
leStep(list, key, begin, end, mid) ==
    IF Compare(list[mid + 1].Key, key) <= 0 THEN leLoop(list, key, mid, end)
    ELSE IF end = mid THEN begin
    ELSE leLoop(list, key, begin, mid)

leLoop(list, key, begin, end) ==
    IF end - begin > 0 THEN leStep(list, key, begin, end, midpoint(begin, end))
    ELSE begin

entryAt(list, b) == [err |-> "nil", e |-> b, entry |-> list[b + 1]]

\* blockEntryLE: the last entry with Key <= key and its position, ErrNotFound
\* when the first entry's Key is above key.  List[0] of an empty List panics.
blockEntryLE(index, key) ==
    IF Len(index.List) = 0
    THEN [err |-> "panic", e |-> 0, entry |-> NoEntry]
    ELSE IF Compare(index.List[1].Key, key) = 1
    THEN [err |-> "ErrNotFound", e |-> 0, entry |-> NoEntry]
    ELSE entryAt(index.List, leLoop(index.List, key, 0, Len(index.List) - 1))

\* A short match that counts as equal.
shortEqual(cmp) == cmp

\* "An equal match here is short, so actually a less than".
shortCompare(cmp) == IF cmp = 0 THEN -1 ELSE cmp

\* prefixCompare(bufa, b): bufa against b over len(b) bytes; a bufa shorter
\* than b that matches that far counts as less.
prefixCompare(bufa, b) ==
    IF Len(bufa) < Len(b)
    THEN shortCompare(Compare(bufa, Slice(b, 0, Len(bufa))))
    ELSE Compare(Slice(bufa, 0, Len(b)), b)

\* The loop of blockEntryLT.
RECURSIVE ltLoop(_, _, _, _)
ltStep(list, key, begin, end, mid) ==
    IF prefixCompare(list[mid + 1].Key, key) = -1 THEN ltLoop(list, key, mid, end)
    ELSE IF end = mid THEN begin
    ELSE ltLoop(list, key, begin, mid)

ltLoop(list, key, begin, end) ==
    IF end - begin > 0 THEN ltStep(list, key, begin, end, midpoint(begin, end))
    ELSE begin

\* blockEntryLT: the last entry with Key < key, or the first entry.
blockEntryLT(index, key) ==
    IF Len(index.List) = 0
    THEN [err |-> "panic", e |-> 0, entry |-> NoEntry]
    ELSE entryAt(index.List, ltLoop(index.List, key, 0, Len(index.List) - 1))

\* ---------------------------------------------------------------- searcher

\* getNBytesFrom(buf, length, delim): buf[:length], cut at the first
\* delimiter in it.  buf[:length] beyond the mapping's capacity panics.
getNBytesFrom(buf, length, delim) ==
    IF length > Len(buf) THEN [panic |-> TRUE, bytes |-> <<>>]
    ELSE [panic |-> FALSE,
          bytes |-> SplitKey(Slice(buf, 0, length), delim)]

\* The first loop of scanLinesWithKey: skip the lines with a key below key.
\* Ends on "break" (at offset), "return" (no newline left) or "panic".
RECURSIVE skipLoop(_, _, _, _)
skipStep(buf, key, delim, offset, k, nlidx) ==
    IF k.panic THEN [kind |-> "panic", offset |-> offset]
    ELSE IF Compare(k.bytes, key) > -1 THEN [kind |-> "break", offset |-> offset]
    ELSE IF nlidx = -1 THEN [kind |-> "return", offset |-> offset]
    ELSE skipLoop(buf, key, delim, offset + nlidx + 1)

skipLoop(buf, key, delim, offset) ==
    IF offset < Len(buf)
    THEN skipStep(buf, key, delim, offset,
                  getNBytesFrom(SliceFrom(buf, offset), Len(key), delim),
                  IndexByte(SliceFrom(buf, offset), recordSeparator))
    ELSE [kind |-> "break", offset |-> offset]

\* A test that compares the key's bytes and not the delimiter after them.
lineMatchesKeyOnly(rest, keyde) ==
    HasPrefix(rest, SubSeq(keyde, 1, Len(keyde) - 1))

\* The test that admits a line to the result: it begins with key+delimiter.
lineMatches(rest, keyde) == HasPrefix(rest, keyde)

\* The limit test after a line is appended.
limitReached(n, count) == n > 0 /\ count >= n

\* "If no newline found, read to end of buf".
lineEnd(buf, offset, nlidx) == IF nlidx = -1 THEN Len(buf) - offset ELSE nlidx

\* The second loop of scanLinesWithKey: collect up to n lines that begin
\* with keyde.
RECURSIVE collateLoop(_, _, _, _, _)
collateNext(buf, keyde, n, offset, lines) ==
    IF limitReached(n, Len(lines)) THEN lines
    ELSE collateLoop(buf, keyde, n, offset, lines)

collateStep(buf, keyde, n, offset, lines, nlidx) ==
    collateNext(buf, keyde, n, offset + nlidx + 1,
                Append(lines, Slice(buf, offset, offset + nlidx)))

collateLoop(buf, keyde, n, offset, lines) ==
    IF offset < Len(buf) /\ lineMatches(SliceFrom(buf, offset), keyde)
    THEN collateStep(buf, keyde, n, offset, lines,
                     lineEnd(buf, offset,
                             IndexByte(SliceFrom(buf, offset), recordSeparator)))
    ELSE lines

afterSkip(buf, keyde, n, sk) ==
    IF sk.kind = "panic" THEN [panic |-> TRUE, lines |-> <<>>]
    ELSE IF sk.kind = "return" THEN [panic |-> FALSE, lines |-> <<>>]
    ELSE [panic |-> FALSE, lines |-> collateLoop(buf, keyde, n, sk.offset, <<>>)]

\* scanLinesWithKey(buf, key, n) under the index's delimiter.
scanLinesWithKey(buf, key, n, delim) ==
    afterSkip(buf, key \o delim, n, skipLoop(buf, key, delim, 0))

scanResult(sc) ==
    IF sc.panic THEN [err |-> "panic", lines |-> <<>>]
    ELSE IF Len(sc.lines) = 0 THEN [err |-> "ErrNotFound", lines |-> <<>>]
    ELSE [err |-> "nil", lines |-> sc.lines]

\* s.mmap[entry.Offset:] with an offset outside the mapping panics.
scanFromEntry(sr, key, n, be) ==
    IF be.err # "nil" THEN [err |-> be.err, lines |-> <<>>]
    ELSE IF be.entry.Offset < 0 \/ be.entry.Offset > Len(sr.mmap)
    THEN [err |-> "panic", lines |-> <<>>]
    ELSE scanResult(scanLinesWithKey(SliceFrom(sr.mmap, be.entry.Offset), key, n,
                                     sr.Index.Delimiter))

\* The block lookup of scanIndexedLines: blockEntryLE "if index entries
\* always have the first instance of a key", else blockEntryLT.
blockEntry(index, key) ==
    IF index.KeysIndexFirst THEN blockEntryLE(index, key)
    ELSE blockEntryLT(index, key)

\* scanIndexedLines(key, n) on a searcher sr: the lines and the error.
scanIndexedLines(sr, key, n) ==
    scanFromEntry(sr, key, n, blockEntry(sr.Index, key))

\* The limit LinesN scans with: a unique-key index turns "no limit" into 1.
effectiveLimit(sr, n) == IF n = 0 /\ sr.Index.KeysUnique THEN 1 ELSE n

\* LinesN(key, n).
LinesN(sr, key, n) == scanIndexedLines(sr, key, effectiveLimit(sr, n))

\* Lines(b).
Lines(sr, b) == LinesN(sr, b, 0)

firstLine(r) ==
    IF r.err # "nil" \/ Len(r.lines) < 1 THEN [err |-> r.err, lines |-> <<>>]
    ELSE [err |-> "nil", lines |-> <<r.lines[1]>>]

\* Line(key): the first line of LinesN(key, 1), or an empty slice and the error.
Line(sr, key) == firstLine(LinesN(sr, key, 1))

\* "Remove leading key+delimiter from line", after the sanity check that
\* panics on a line that does not begin with them.
trimPrefix(line, prefix) ==
    IF ~HasPrefix(line, prefix) THEN [err |-> "assertion", lines |-> <<>>]
    ELSE [err |-> "nil", lines |-> <<SliceFrom(line, Len(prefix))>>]

getValue(ln, prefix) ==
    IF ln.err # "nil" THEN [err |-> ln.err, lines |-> <<>>]
    ELSE trimPrefix(IF Len(ln.lines) > 0 THEN ln.lines[1] ELSE <<>>, prefix)

\* DB.Get(key) on the DB's searcher: the value (as the one element of
\* lines) and the error.
Get(sr, key) == getValue(Line(sr, key), key \o sr.Index.Delimiter)

\* ------------------------------------------------------------ sidecar file

\* The sidecar as stored: whether the file exists, whether it holds the
\* whole header line, the header's JSON object (field by field, in JSON's
\* encoding), the names of the fields the object does not have, and the bytes
\* after the header line.
NoSidecar ==
    [exists |-> FALSE, headerLine |-> FALSE, header |-> ZeroIndex,
     absent |-> {}, body |-> <<>>]

\* json.Marshal(i): the Delimiter bytes in base64 and each header field as a
\* JSON string; the List is not exported to JSON.
Marshal(index) ==
    [index EXCEPT !.Delimiter = b64Encode(@, 1),
                  !.List = <<>>,
                  !.HeaderFields = [j \in 1..Len(@) |-> jsonString(@[j])]]

\* json.Unmarshal(firstLine, &index): an absent field keeps Go's zero value.
Unmarshal(h, absent) ==
    [h EXCEPT !.Delimiter = b64Decode(@, 1),
              !.Length = IF "Length" \in absent THEN 0 ELSE @,
              !.Version = IF "Version" \in absent THEN 0 ELSE @,
              !.HeaderFields = [j \in 1..Len(@) |-> jsonParse(@[j])]]

\* "New indices set Filename, and we derive Filepath", "old indices used
\* Filepath instead, so derive Filename".
derivePaths(h, p) ==
    IF h.Filename # "" THEN [h EXCEPT !.Filepath = Join(Dir(p), h.Filename)]
    ELSE IF h.Filepath # NoPath THEN [h EXCEPT !.Filename = Base(h.Filepath)]
    ELSE h

\* The filename binding LoadIndex rejects.
pathMismatch(index, p) ==
    \/ (index.Version >= 4 /\ index.Filepath # p)
    \/ (index.Version = 3 /\ Base(index.Filepath) # index.Filename)

\* A staleness test that finds every sidecar fresh.
indexNeverExpired(fe, ie) == FALSE

\* The staleness test of LoadIndex on the two modification times.
indexExpired(fe, ie) == fe > ie

\* strings.TrimRight(line, string(c)).
RECURSIVE TrimRight(_, _)
TrimRight(str, c) ==
    IF Len(str) > 0 /\ str[Len(str)] = c
    THEN TrimRight(SubSeq(str, 1, Len(str) - 1), c)
    ELSE str

\* The entry of an index line's two fields, when both parse.
parsedEntry(offset, key) ==
    IF offset.err \/ key.err THEN [err |-> TRUE, entry |-> NoEntry]
    ELSE [err |-> FALSE, entry |-> [Key |-> key.str, Offset |-> offset.int]]

\* strings.SplitN(line, string(fieldSeparator), 2), d being the first
\* separator's offset, then ParseInt and Unquote on the two fields.
parsePair(line, d) ==
    IF d = -1 THEN [err |-> TRUE, entry |-> NoEntry]
    ELSE parsedEntry(ParseInt(Slice(line, 0, d)), Unquote(SliceFrom(line, d + 1)))

\* The loop over the entry lines: counter lines have been read into list and
\* the reader stands at body.  ReadString gives io.EOF when no record
\* separator is left.
RECURSIVE readEntries(_, _, _)
readEntry(body, Length, list, nl, pe) ==
    IF pe.err THEN [err |-> "malformed index", List |-> <<>>]
    ELSE readEntries(SliceFrom(body, nl + 1), Length, Append(list, pe.entry))

readLine(body, Length, list, nl) ==
    IF nl = -1 THEN [err |-> "malformed index", List |-> <<>>]
    ELSE CHOOSE r \in {readEntry(body, Length, list, nl, pe) :
                       pe \in {parsePair(line, IndexByte(line, fieldSeparator)) :
                               line \in {TrimRight(Slice(body, 0, nl + 1),
                                                   recordSeparator)}}} : TRUE

readEntries(body, Length, list) ==
    IF Len(list) >= Length THEN [err |-> "nil", List |-> list]
    ELSE readLine(body, Length, list, IndexByte(body, recordSeparator))

loaded(index, r) ==
    IF r.err # "nil" THEN [err |-> r.err, index |-> ZeroIndex]
    ELSE [err |-> "nil",
          index |-> [index EXCEPT !.Version = IF @ = 0 THEN 1 ELSE @,
                                  !.List = r.List]]

loadEntries(index, body) == loaded(index, readEntries(body, index.Length, <<>>))

loadChecked(index, p, body, ie, fe) ==
    IF pathMismatch(index, p) THEN [err |-> "ErrIndexPathMismatch", index |-> ZeroIndex]
    ELSE IF indexExpired(fe, ie) THEN [err |-> "ErrIndexExpired", index |-> ZeroIndex]
    ELSE loadEntries(index, body)

\* LoadIndex(path) on sidecar sc with mtime ie, the dataset's mtime being fe.
\* A file that ends before its first newline fails ReadBytes with io.EOF.
LoadIndex(p, sc, ie, fe) ==
    IF ~sc.exists THEN [err |-> "ErrIndexNotFound", index |-> ZeroIndex]
    ELSE IF ~sc.headerLine THEN [err |-> "EOF", index |-> ZeroIndex]
    ELSE loadChecked(derivePaths(Unmarshal(sc.header, sc.absent), p), p, sc.body,
                     ie, fe)

\* One entry line of Index.Write: "%d%c%s%c" of the offset, the field
\* separator, the quoted key and the record separator.
entryRecord(entry) ==
    FormatInt(entry.Offset) \o <<fieldSeparator>> \o Quote(entry.Key)
        \o <<recordSeparator>>

RECURSIVE entryRecords(_, _)
entryRecords(list, j) ==
    IF j > Len(list) THEN <<>>
    ELSE entryRecord(list[j]) \o entryRecords(list, j + 1)

\* What a Write that meets no error leaves in the sidecar: the JSON header of
\* the index without its Filepath, then one line per entry.
writtenSidecar(index) ==
    [exists |-> TRUE, headerLine |-> TRUE,
     header |-> Marshal([index EXCEPT !.Filepath = NoPath]),
     absent |-> {}, body |-> entryRecords(index.List, 1)]

\* What the file holds when the write that Flush makes stops short: nothing
\* of the header line's end (k < 0), or the header line and the first k bytes
\* of the entry lines.
partialSidecar(full, k) ==
    IF k < 0 THEN [NoSidecar EXCEPT !.exists = TRUE]
    ELSE [full EXCEPT !.body = SubSeq(@, 1, k)]

\* Index.Write() on an index whose sidecar holds sc, by what the file system
\* does: "ok"; "open" (OpenFile fails, and the file is as it was); "flush"
\* (the write that writer.Flush makes stops after k bytes of the entry lines
\* and fails; Write does not look at Flush's error); "close" (fh.Close fails,
\* and abort removes the file).  The model's indexes are shorter than bufio's
\* buffer of 4096 bytes, so the header and the entry lines stay in the buffer
\* until Flush and writer.Write, WriteByte and WriteString cannot fail.
Write(index, sc, io, k) ==
    IF io = "open" THEN [err |-> "EACCES", sidecar |-> sc]
    ELSE IF io = "flush"
    THEN [err |-> "nil", sidecar |-> partialSidecar(writtenSidecar(index), k)]
    ELSE IF io = "close" THEN [err |-> "EIO", sidecar |-> NoSidecar]
    ELSE [err |-> "nil", sidecar |-> writtenSidecar(index)]

\* ------------------------------------------------------------------- state

VARIABLES
    data,          \* the dataset file's bytes
    dataEpoch,     \* the dataset's modification time, in seconds
    sidecar,       \* the sidecar index file
    sidecarEpoch,  \* the sidecar's modification time
    writable,      \* the sidecar's location grants write permission
    clock,         \* the current time, in seconds
    s,             \* the Searcher
    fdOpen,        \* the file handle of the last NewSearcherOptions is open
    mmapLive,      \* the mapping of the last NewSearcherOptions is mapped
    ret,           \* what the last call returned
    calls          \* the queries in flight, by caller

vars == <<data, dataEpoch, sidecar, sidecarEpoch, writable, clock, s, fdOpen,
          mmapLive, ret, calls>>

\* The dataset every call is made on.
DataPath == <<"/data", "foo.csv">>

\* Another dataset's name, for a sidecar bound to the wrong file.
OtherName == "bar.csv"

\* ------------------------------------------------------------------ inputs

KeyA == <<97>>
KeyB == <<98>>

\* The key fields of generated lines.
Keys == {<<>>, KeyA, KeyB, <<97, 97>>, <<97, 98>>}

\* Length of the long probe keys.
LongLen == 6
LongKeys == {[i \in 1..LongLen |-> b] : b \in {97, 98}}

\* The keys queried: those of the lines, absent ones between and after them,
\* and keys longer than any line.
QueryKeys == Keys \cup {<<98, 97>>, <<98, 98>>} \cup LongKeys

\* Line i of a dataset: key, comma, and a value byte naming its position.
MkLine(key, i) == key \o Comma \o <<48 + i>>

RECURSIVE MkBytes(_, _, _)
MkBytes(ks, i, finalNL) ==
    IF i > Len(ks) THEN <<>>
    ELSE MkLine(ks[i], i)
         \o (IF i < Len(ks) \/ finalNL THEN <<recordSeparator>> ELSE <<>>)
         \o MkBytes(ks, i + 1, finalNL)

KeySeqs(n) == UNION {[1..m -> Keys] : m \in 0..n}

\* Every dataset of up to MaxLines lines, sorted or not, with or without
\* the final newline.
DataSets == {MkBytes(ks, 1, nl) : ks \in KeySeqs(MaxLines), nl \in BOOLEAN}

\* The datasets of the lifecycle specification.
LifeDataSets ==
    {MkBytes(ks, 1, TRUE) : ks \in {<<>>, <<KeyA>>, <<KeyA, KeyB>>,
                                    <<KeyB, KeyA, KeyA>>}}

BlockSizes == {0, 4, 6}

\* The options the index is written with before the lifecycle's opens, and
\* before the queries.
LifeIndexOptions == {IndexOptions(0, d, h) : d \in {<<>>, Pipe}, h \in BOOLEAN}
QueryIndexOptions == {IndexOptions(bs, <<>>, h) : bs \in BlockSizes, h \in BOOLEAN}
Delimiters == {<<>>, Comma, Pipe}

\* SearcherOptions.
SearcherOptions(le, delim, hdr) ==
    [Delimiter |-> delim, Header |-> hdr, MatchLE |-> le]

\* The options the lifecycle opens with, and those the queries run under.
LifeSearcherOptions ==
    {SearcherOptions(FALSE, d, h) : d \in Delimiters, h \in BOOLEAN}
QuerySearcherOptions == {SearcherOptions(le, <<>>, FALSE) : le \in BOOLEAN}
NoSearcher ==
    [state |-> "None", mmap |-> <<>>, Index |-> ZeroIndex, matchLE |-> FALSE]

\* A block lookup that has found nothing yet, and its loop before it starts:
\* where the lookup stands and the loop's begin, mid and end.
NoBlockEntry == [err |-> "nil", e |-> 0, entry |-> NoEntry]
NoLoop == [pc |-> "none", begin |-> 0, mid |-> 0, end |-> 0]

NoRet ==
    [op |-> "none", err |-> "nil", sr |-> FALSE, key |-> <<>>, n |-> 0,
     lines |-> <<>>,
     opt |-> SearcherOptions(FALSE, <<>>, FALSE), idxErr |-> "nil",
     built |-> FALSE, wrote |-> FALSE, index |-> ZeroIndex, io |-> "ok",
     idxopt |-> IndexOptions(0, <<>>, FALSE),
     be |-> NoBlockEntry, loop |-> NoLoop, modified |-> FALSE]

\* Number of goroutines that query one searcher.
NumCallers == 2
Callers == 1..NumCallers

\* A caller that has not called: where it stands, the query and its
\* arguments, LinesN's local n, the block entry found, and what it returned.
NoCall ==
    [pc |-> "idle", op |-> "none", key |-> <<>>, n |-> 0, limit |-> 0,
     be |-> [err |-> "nil", e |-> 0, entry |-> NoEntry],
     err |-> "nil", lines |-> <<>>]

NoCalls == [c \in Callers |-> NoCall]

\* ------------------------------------------------------- NewSearcherOptions

\* The load errors after which NewSearcherOptions goes on to rebuild.
loadErrorTolerated(err) ==
    err \in {"nil", "ErrNotFound", "ErrIndexExpired", "ErrIndexPathMismatch"}

\* A sanity check that accepts every loaded index.
optionsIgnored(opt, index) == TRUE

\* The loaded index agrees with the caller's explicit delimiter and header.
optionsAgree(opt, index) ==
    /\ (Len(opt.Delimiter) = 0 \/ Compare(opt.Delimiter, index.Delimiter) = 0)
    /\ (opt.Header = FALSE \/ opt.Header = index.Header)

\* An access check that always grants.
accessGranted(sc, w) == TRUE

\* unix.Access(idxpath, W_OK): the sidecar exists and may be written.
accessWritable(sc, w) == sc.exists /\ w

\* The outcome of NewSearcherOptions: the error, whether a Searcher is
\* returned, its Index, the error LoadIndex gave, and whether NewIndexOptions
\* and Index.Write ran.
outcome(err, sr, index, idxErr, built, wrote) ==
    [err |-> err, sr |-> sr, Index |-> index, idxErr |-> idxErr,
     built |-> built, wrote |-> wrote]

\* NewIndexOptions and Write at the end of NewSearcherOptions; Write resets
\* the Filepath of the Index it is called on.
rebuildOutcome(idxErr, nb) ==
    IF nb.err # "nil" THEN outcome(nb.err, FALSE, ZeroIndex, idxErr, TRUE, FALSE)
    ELSE outcome("nil", TRUE, [nb.index EXCEPT !.Filepath = NoPath], idxErr,
                 TRUE, TRUE)

\* NewSearcherOptions from LoadIndex's result ld on; nb is what
\* NewIndexOptions gives under the caller's delimiter and header.
openWith(opt, sc, w, ld, nb) ==
    IF ~loadErrorTolerated(ld.err)
    THEN outcome(ld.err, FALSE, ZeroIndex, ld.err, FALSE, FALSE)
    ELSE IF ld.err = "nil" /\ optionsAgree(opt, ld.index)
    THEN outcome("nil", TRUE, ld.index, ld.err, FALSE, FALSE)
    ELSE IF ~accessWritable(sc, w)
    THEN outcome(ld.err, FALSE, ZeroIndex, ld.err, FALSE, FALSE)
    ELSE rebuildOutcome(ld.err, nb)

\* What NewSearcherOptions does once the dataset is mapped.
openOutcome(opt, sc, ie, content, fe, w) ==
    openWith(opt, sc, w, LoadIndex(DataPath, sc, ie, fe),
             NewIndexOptions(DataPath, IndexOptions(0, opt.Delimiter, opt.Header),
                             content, fe))

\* NewSearcherOptions(path, opt): open and map the dataset, load the index
\* or rebuild and write it.  Mapping an empty file fails.
NewSearcherOptions(opt) ==
    /\ s.state # "Ready"
    /\ IF Len(data) = 0
       THEN /\ s' = NoSearcher
            /\ fdOpen' = TRUE
            /\ mmapLive' = FALSE
            /\ ret' = [NoRet EXCEPT !.op = "NewSearcherOptions",
                                    !.err = "EINVAL", !.opt = opt]
            /\ UNCHANGED <<sidecar, sidecarEpoch>>
       ELSE \E o \in {openOutcome(opt, sidecar, sidecarEpoch, data, dataEpoch,
                                  writable)} :
            /\ s' = IF o.sr
                    THEN [state |-> "Ready", mmap |-> data,
                          Index |-> o.Index, matchLE |-> opt.MatchLE]
                    ELSE NoSearcher
            /\ fdOpen' = TRUE
            /\ mmapLive' = TRUE
            /\ sidecar' = IF o.wrote THEN writtenSidecar(o.Index) ELSE sidecar
            /\ sidecarEpoch' = IF o.wrote THEN clock ELSE sidecarEpoch
            /\ ret' = [NoRet EXCEPT !.op = "NewSearcherOptions",
                                    !.err = o.err, !.sr = o.sr, !.opt = opt,
                                    !.idxErr = o.idxErr,
                                    !.built = o.built, !.wrote = o.wrote]
    /\ UNCHANGED calls
    /\ UNCHANGED <<data, dataEpoch, writable, clock>>

\* Close(): close the searcher's reader.
Close ==
    /\ s.state = "Ready"
    /\ s' = [s EXCEPT !.state = "Closed"]
    /\ fdOpen' = FALSE
    /\ ret' = [NoRet EXCEPT !.op = "Close"]
    /\ UNCHANGED calls
    /\ UNCHANGED <<data, dataEpoch, sidecar, sidecarEpoch, writable, clock,
                   mmapLive>>

\* ----------------------------------------------------------------- queries

queryRet(op, key, n, r) ==
    [NoRet EXCEPT !.op = op, !.key = key, !.n = n, !.err = r.err,
                  !.lines = r.lines]

CallLine(key) ==
    /\ s.state = "Ready"
    /\ ret' = queryRet("Line", key, 1, Line(s, key))
    /\ UNCHANGED calls
    /\ UNCHANGED <<data, dataEpoch, sidecar, sidecarEpoch, writable, clock, s,
                   fdOpen, mmapLive>>

CallLines(key) ==
    /\ s.state = "Ready"
    /\ ret' = queryRet("Lines", key, 0, Lines(s, key))
    /\ UNCHANGED calls
    /\ UNCHANGED <<data, dataEpoch, sidecar, sidecarEpoch, writable, clock, s,
                   fdOpen, mmapLive>>

CallLinesN(key, n) ==
    /\ s.state = "Ready"
    /\ ret' = queryRet("LinesN", key, n, LinesN(s, key, n))
    /\ UNCHANGED calls
    /\ UNCHANGED <<data, dataEpoch, sidecar, sidecarEpoch, writable, clock, s,
                   fdOpen, mmapLive>>

\* Get(key) on a DB, whose searcher NewSearcher opened with default options.
CallGet(key) ==
    /\ s.state = "Ready"
    /\ ~s.matchLE
    /\ ret' = queryRet("Get", key, 1, Get(s, key))
    /\ UNCHANGED calls
    /\ UNCHANGED <<data, dataEpoch, sidecar, sidecarEpoch, writable, clock, s,
                   fdOpen, mmapLive>>

\* ------------------------------------------------------ concurrent queries

\* Goroutines query one searcher at once.  A query reads the searcher at
\* three places (the index's KeysUnique flag and the index pointer, the
\* index's List, the mapping and the index's Delimiter) and other goroutines
\* run between them.  An unrecovered panic in any goroutine ends the program,
\* and with it the queries that have not yet returned.

\* The program has ended on a panic.
crashed == \E c \in Callers : calls[c].pc = "panicked"

\* "If no index exists, build and use a temporary one (but don't write)";
\* the nil Index is the zero Index, nb what NewIndex(s.filepath) gives.
withIndex(sr, nb) ==
    IF sr.Index = ZeroIndex /\ nb.err = "nil" THEN [sr EXCEPT !.Index = nb.index]
    ELSE sr

\* The calls once caller c has panicked: the program ends, so every query
\* still running ends without returning.
panicIn(c) ==
    [d \in Callers |->
       IF d = c THEN [calls[d] EXCEPT !.pc = "panicked", !.err = "panic"]
       ELSE IF calls[d].pc \in {"idle", "done"} THEN calls[d]
       ELSE [calls[d] EXCEPT !.pc = "killed"]]

\* The calls once caller c has returned r.
returnIn(c, r) ==
    IF r.err = "panic" THEN panicIn(c)
    ELSE [calls EXCEPT ![c] = [@ EXCEPT !.pc = "done", !.err = r.err,
                                        !.lines = r.lines]]

\* Caller c calls Line(key) (op "Line", n = 1), Lines(key) (op "Lines",
\* n = 0) or LinesN(key, n).
Enter(c, op, key, n) ==
    /\ s.state = "Ready"
    /\ ~crashed
    /\ calls[c].pc = "idle"
    /\ calls' = [calls EXCEPT ![c] = [NoCall EXCEPT !.pc = "entered", !.op = op,
                                                    !.key = key, !.n = n,
                                                    !.limit = n]]
    /\ UNCHANGED <<data, dataEpoch, sidecar, sidecarEpoch, writable, clock, s,
                   fdOpen, mmapLive, ret>>

\* The head of LinesN in caller c: clamp n by KeysUnique, and build an index
\* if the searcher has none.
Limit(c) ==
    /\ ~crashed
    /\ calls[c].pc = "entered"
    /\ \E nb \in {IF s.Index = ZeroIndex
                  THEN NewIndexOptions(DataPath, IndexOptions(0, <<>>, FALSE),
                                       data, dataEpoch)
                  ELSE [err |-> "nil", index |-> s.Index]} :
          /\ s' = withIndex(s, nb)
          /\ calls' = IF nb.err # "nil"
                      THEN returnIn(c, [err |-> nb.err, lines |-> <<>>])
                      ELSE [calls EXCEPT ![c] =
                              [@ EXCEPT !.pc = "indexed",
                                        !.limit = effectiveLimit(s, @)]]
    /\ UNCHANGED <<data, dataEpoch, sidecar, sidecarEpoch, writable, clock,
                   fdOpen, mmapLive, ret>>

\* The block lookup of scanIndexedLines in caller c.
Lookup(c) ==
    /\ ~crashed
    /\ calls[c].pc = "indexed"
    /\ \E be \in {blockEntry(s.Index, calls[c].key)} :
          calls' = IF be.err = "panic" THEN panicIn(c)
                   ELSE [calls EXCEPT ![c] = [@ EXCEPT !.pc = "found", !.be = be]]
    /\ UNCHANGED <<data, dataEpoch, sidecar, sidecarEpoch, writable, clock, s,
                   fdOpen, mmapLive, ret>>

\* The rest of scanIndexedLines in caller c, from the entry it found: scan
\* the mapping and return (Line returns the first line only).
Scan(c) ==
    /\ ~crashed
    /\ calls[c].pc = "found"
    /\ \E r \in {scanFromEntry(s, calls[c].key, calls[c].limit, calls[c].be)} :
          calls' = returnIn(c, IF calls[c].op = "Line" THEN firstLine(r) ELSE r)
    /\ UNCHANGED <<data, dataEpoch, sidecar, sidecarEpoch, writable, clock, s,
                   fdOpen, mmapLive, ret>>

\* ------------------------------------------------------------- environment

\* The file system changes between the searchers' lifetimes, not under an
\* open searcher.

writeError(nb, w) ==
    IF nb.err # "nil" THEN nb.err ELSE IF ~w THEN "EACCES" ELSE "nil"

\* NewIndexOptions(path, opt) followed by Write(), as the index command and
\* the tests' ensureIndex do.
WriteNewIndex(opt) ==
    /\ s.state # "Ready"
    /\ \E nb \in {NewIndexOptions(DataPath, opt, data, dataEpoch)} :
       \E e \in {writeError(nb, writable)} :
          /\ sidecar' = IF e = "nil" THEN writtenSidecar(nb.index) ELSE sidecar
          /\ sidecarEpoch' = IF e = "nil" THEN clock ELSE sidecarEpoch
          /\ ret' = [NoRet EXCEPT !.op = "WriteNewIndex", !.err = e,
                                  !.built = TRUE, !.wrote = (e = "nil")]
    /\ UNCHANGED calls
    /\ UNCHANGED <<data, dataEpoch, writable, clock, s, fdOpen, mmapLive>>

\* What a caller still holds while other processes run: the Index that
\* NewIndexOptions returned to it and that it has not written yet, with a
\* note of whether the dataset was modified since.
held(r, modified) ==
    IF r.op = "NewIndexOptions" /\ r.err = "nil"
    THEN [r EXCEPT !.modified = @ \/ modified]
    ELSE NoRet

\* A second passes.
Tick ==
    /\ s.state # "Ready"
    /\ clock < MaxClock
    /\ clock' = clock + 1
    /\ ret' = held(ret, FALSE)
    /\ UNCHANGED calls
    /\ UNCHANGED <<data, dataEpoch, sidecar, sidecarEpoch, writable, s, fdOpen,
                   mmapLive>>

\* The dataset is rewritten (or only touched) while no searcher maps it.
ModifyDataset(d) ==
    /\ s.state # "Ready"
    /\ data' = d
    /\ dataEpoch' = clock
    /\ ret' = held(ret, TRUE)
    /\ UNCHANGED calls
    /\ UNCHANGED <<sidecar, sidecarEpoch, writable, clock, s, fdOpen, mmapLive>>

\* The sidecar is deleted.
RemoveSidecar ==
    /\ s.state # "Ready"
    /\ sidecar.exists
    /\ sidecar' = NoSidecar
    /\ ret' = NoRet
    /\ UNCHANGED calls
    /\ UNCHANGED <<data, dataEpoch, sidecarEpoch, writable, clock, s, fdOpen,
                   mmapLive>>

\* Write permission on the sidecar's location is granted or withdrawn.
Chmod ==
    /\ s.state # "Ready"
    /\ writable' = ~writable
    /\ ret' = NoRet
    /\ UNCHANGED calls
    /\ UNCHANGED <<data, dataEpoch, sidecar, sidecarEpoch, clock, s, fdOpen,
                   mmapLive>>

\* The header of an index bound to name: format 4 stores the Filename, the
\* older formats the Filepath.
boundTo(index, name, ver) ==
    IF ver >= 4
    THEN [index EXCEPT !.Version = ver, !.Filename = name, !.Filepath = NoPath]
    ELSE [index EXCEPT !.Version = ver, !.Filename = "",
                       !.Filepath = Join(Dir(DataPath), name)]

\* The sidecar of a dataset that was copied or renamed, or one written by
\* an earlier release: the index of the present bytes bound to name under
\* format version ver.
InstallSidecar(name, ver) ==
    /\ s.state # "Ready"
    /\ \E nb \in {NewIndexOptions(DataPath, IndexOptions(0, <<>>, FALSE),
                                  data, dataEpoch)} :
          /\ nb.err = "nil"
          /\ sidecar' = [writtenSidecar(nb.index) EXCEPT
                           !.header = Marshal(boundTo(nb.index, name, ver))]
    /\ sidecarEpoch' = clock
    /\ ret' = NoRet
    /\ UNCHANGED calls
    /\ UNCHANGED <<data, dataEpoch, writable, clock, s, fdOpen, mmapLive>>

\* ----------------------------------------------------- index file handling

\* The outcomes of the file system under Index.Write.
WriteOutcomes == {"ok", "open", "flush", "close"}

\* NewIndexOptions(path, opt) followed by Write() under I/O outcome io; the
\* Index the caller holds afterwards has its Filepath reset.
CallWrite(opt, io) ==
    /\ s.state # "Ready"
    /\ \E nb \in {NewIndexOptions(DataPath, opt, data, dataEpoch)} :
          /\ nb.err = "nil"
          /\ \E k \in -1..(Len(entryRecords(nb.index.List, 1)) - 1) :
                /\ io # "flush" => k = -1
                /\ \E w \in {Write(nb.index, sidecar, io, k)} :
                      /\ sidecar' = w.sidecar
                      /\ sidecarEpoch' = IF io = "open" THEN sidecarEpoch ELSE clock
                      /\ ret' = [NoRet EXCEPT
                                   !.op = "Write", !.err = w.err, !.built = TRUE,
                                   !.wrote = (w.err = "nil"),
                                   !.index = [nb.index EXCEPT
                                                !.Filepath = IF io = "open" THEN @
                                                             ELSE NoPath],
                                   !.io = io]
    /\ UNCHANGED calls
    /\ UNCHANGED <<data, dataEpoch, writable, clock, s, fdOpen, mmapLive>>

\* Write() on the Index that NewIndexOptions returned earlier, under I/O
\* outcome io.
CallIndexWrite(io) ==
    /\ s.state # "Ready"
    /\ ret.op = "NewIndexOptions"
    /\ ret.err = "nil"
    /\ \E k \in -1..(Len(entryRecords(ret.index.List, 1)) - 1) :
          /\ io # "flush" => k = -1
          /\ \E w \in {Write(ret.index, sidecar, io, k)} :
                /\ sidecar' = w.sidecar
                /\ sidecarEpoch' = IF io = "open" THEN sidecarEpoch ELSE clock
                /\ ret' = [ret EXCEPT
                             !.op = "Write", !.err = w.err,
                             !.wrote = (w.err = "nil"),
                             !.index.Filepath = IF io = "open" THEN @ ELSE NoPath,
                             !.io = io]
    /\ UNCHANGED calls
    /\ UNCHANGED <<data, dataEpoch, writable, clock, s, fdOpen, mmapLive>>

\* LoadIndex(path).
CallLoadIndex ==
    /\ s.state # "Ready"
    /\ \E ld \in {LoadIndex(DataPath, sidecar, sidecarEpoch, dataEpoch)} :
          ret' = [NoRet EXCEPT !.op = "LoadIndex", !.err = ld.err,
                               !.index = ld.index]
    /\ UNCHANGED calls
    /\ UNCHANGED <<data, dataEpoch, sidecar, sidecarEpoch, writable, clock, s,
                   fdOpen, mmapLive>>

\* The last call wrote the whole sidecar.
justWritten == ret.op = "Write" /\ ret.err = "nil" /\ ret.io = "ok"

\* The sidecar loses its end (a copy that was cut short): k bytes of its
\* entry lines are left.
TruncateSidecar(k) ==
    /\ justWritten
    /\ k < Len(sidecar.body)
    /\ sidecar' = partialSidecar(sidecar, k)
    /\ ret' = [ret EXCEPT !.op = "Truncate"]
    /\ UNCHANGED calls
    /\ UNCHANGED <<data, dataEpoch, sidecarEpoch, writable, clock, s, fdOpen,
                   mmapLive>>

\* The sidecar gains one more well-formed entry line than its header counts.
AppendEntryLine(entry) ==
    /\ justWritten
    /\ sidecar' = [sidecar EXCEPT !.body = @ \o entryRecord(entry)]
    /\ ret' = [ret EXCEPT !.op = "Append"]
    /\ UNCHANGED calls
    /\ UNCHANGED <<data, dataEpoch, sidecarEpoch, writable, clock, s, fdOpen,
                   mmapLive>>

\* The sidecar's header is one that has no field f, as the header of an
\* index written before the format had the field.
StripField(f) ==
    /\ justWritten \/ ret.op = "Strip"
    /\ f \notin sidecar.absent
    /\ sidecar' = [sidecar EXCEPT !.absent = @ \cup {f}]
    /\ ret' = [ret EXCEPT !.op = "Strip"]
    /\ UNCHANGED calls
    /\ UNCHANGED <<data, dataEpoch, sidecarEpoch, writable, clock, s, fdOpen,
                   mmapLive>>

\* NewIndexOptions(path, opt) alone: the Index is built and handed to the
\* caller, and no file is written.
CallNewIndexOptions(opt) ==
    /\ s.state # "Ready"
    /\ \E nb \in {NewIndexOptions(DataPath, opt, data, dataEpoch)} :
          ret' = [NoRet EXCEPT !.op = "NewIndexOptions", !.err = nb.err,
                               !.built = TRUE, !.index = nb.index,
                               !.idxopt = opt]
    /\ UNCHANGED calls
    /\ UNCHANGED <<data, dataEpoch, sidecar, sidecarEpoch, writable, clock, s,
                   fdOpen, mmapLive>>

\* ------------------------------------------------- block lookup by steps

\* A test that takes an entry for a predecessor only when its key is below
\* the key looked up.
leTestStrict(list, key, mid) == Compare(list[mid + 1].Key, key) < 0

\* The tests of the two loops on list[mid]: `cmp <= 0` on strings.Compare
\* in blockEntryLE, `cmp == -1` on prefixCompare in blockEntryLT.
leTest(list, key, mid) == Compare(list[mid + 1].Key, key) <= 0
ltTest(list, key, mid) == prefixCompare(list[mid + 1].Key, key) = -1

entryTest(op, list, key, mid) ==
    IF op = "blockEntryLE" THEN leTest(list, key, mid) ELSE ltTest(list, key, mid)

\* `return begin, list[begin]`.
returned(r) ==
    [r EXCEPT !.loop.pc = "done", !.be = entryAt(r.index.List, r.loop.begin)]

\* One pass of the loop body with mid computed: raise begin, or break when
\* end is mid, or lower end.
iterated(r, mid) ==
    IF entryTest(r.op, r.index.List, r.key, mid)
    THEN [r EXCEPT !.loop.begin = mid, !.loop.mid = mid]
    ELSE IF r.loop.end = mid THEN returned([r EXCEPT !.loop.mid = mid])
    ELSE [r EXCEPT !.loop.end = mid, !.loop.mid = mid]

\* The call of blockEntryLE or blockEntryLT on an index with the given List:
\* blockEntryLE returns ErrNotFound at once when the first entry is above
\* the key, otherwise the loop starts with begin = 0 and end = len(list) - 1.
EnterLookup(op, list, key) ==
    /\ ret.loop.pc = "none"
    /\ ret' = [NoRet EXCEPT
                 !.op = op, !.key = key,
                 !.index = [ZeroIndex EXCEPT !.List = list, !.Length = Len(list)],
                 !.be = IF op = "blockEntryLE" /\ Compare(list[1].Key, key) = 1
                        THEN [NoBlockEntry EXCEPT !.err = "ErrNotFound"]
                        ELSE NoBlockEntry,
                 !.loop = IF op = "blockEntryLE" /\ Compare(list[1].Key, key) = 1
                          THEN [NoLoop EXCEPT !.pc = "done"]
                          ELSE [NoLoop EXCEPT !.pc = "loop",
                                              !.end = Len(list) - 1]]
    /\ UNCHANGED calls
    /\ UNCHANGED <<data, dataEpoch, sidecar, sidecarEpoch, writable, clock, s,
                   fdOpen, mmapLive>>

\* One iteration of `for end-begin > 0 { ... }`.
Iterate ==
    /\ ret.loop.pc = "loop"
    /\ ret.loop.end - ret.loop.begin > 0
    /\ \E mid \in {midpoint(ret.loop.begin, ret.loop.end)} :
          ret' = iterated(ret, mid)
    /\ UNCHANGED calls
    /\ UNCHANGED <<data, dataEpoch, sidecar, sidecarEpoch, writable, clock, s,
                   fdOpen, mmapLive>>

\* The loop condition fails and the function returns.
ReturnEntry ==
    /\ ret.loop.pc = "loop"
    /\ ret.loop.end - ret.loop.begin <= 0
    /\ ret' = returned(ret)
    /\ UNCHANGED calls
    /\ UNCHANGED <<data, dataEpoch, sidecar, sidecarEpoch, writable, clock, s,
                   fdOpen, mmapLive>>

\* ---------------------------------------------------------- specifications

\* A dataset that has just been written, with no sidecar and no searcher.
InitWith(D) ==
    /\ data \in D
    /\ dataEpoch = 0
    /\ sidecar = NoSidecar
    /\ sidecarEpoch = 0
    /\ writable = TRUE
    /\ clock = 0
    /\ s = NoSearcher
    /\ fdOpen = FALSE
    /\ mmapLive = FALSE
    /\ ret = NoRet
    /\ calls = NoCalls

Init == InitWith(LifeDataSets)

Next ==
    \/ \E opt \in LifeSearcherOptions : NewSearcherOptions(opt)
    \/ Close
    \/ \E opt \in LifeIndexOptions : WriteNewIndex(opt)
    \/ Tick
    \/ \E d \in LifeDataSets : ModifyDataset(d)
    \/ RemoveSidecar
    \/ Chmod
    \/ \E name \in {Base(DataPath), OtherName}, ver \in {3, indexVersion} :
          InstallSidecar(name, ver)

Spec == Init /\ [][Next]_vars

\* Queries on every small dataset, indexed at every block size: the index
\* is written once, the searcher opened once, and one query made on it.
InitQuery == InitWith(DataSets)

NextQuery ==
    \/ /\ ~sidecar.exists
       /\ \E opt \in QueryIndexOptions : WriteNewIndex(opt)
    \/ /\ s.state = "None"
       /\ \E opt \in QuerySearcherOptions : NewSearcherOptions(opt)
    \/ /\ ret.op = "NewSearcherOptions"
       /\ \E key \in QueryKeys : CallLine(key)
    \/ /\ ret.op = "NewSearcherOptions"
       /\ \E key \in QueryKeys : CallLines(key)
    \/ /\ ret.op = "NewSearcherOptions"
       /\ \E key \in QueryKeys, n \in 1..MaxN : CallLinesN(key, n)
    \/ /\ ret.op = "NewSearcherOptions"
       /\ \E key \in QueryKeys : CallGet(key)

SpecQuery == InitQuery /\ [][NextQuery]_vars

\* Concurrent queries: the index is written once at one of two block sizes,
\* the searcher opened once, and each caller makes one query.
ConcKeySeqs == {<<KeyA>>, <<KeyA, KeyB>>, <<KeyA, KeyA, KeyB>>, <<KeyA, KeyB, KeyB>>}
ConcDataSets == {MkBytes(ks, 1, TRUE) : ks \in ConcKeySeqs}
ConcIndexOptions == {IndexOptions(bs, <<>>, FALSE) : bs \in {0, 4}}
ConcSearcherOptions == {SearcherOptions(FALSE, <<>>, FALSE)}
ConcKeys == {KeyA, KeyB} \cup {[i \in 1..LongLen |-> 97]}
ConcQueries == {<<"Line", 1>>, <<"Lines", 0>>, <<"LinesN", MaxN>>}

InitConc == InitWith(ConcDataSets)

NextConc ==
    \/ /\ ~sidecar.exists
       /\ \E opt \in ConcIndexOptions : WriteNewIndex(opt)
    \/ /\ s.state = "None"
       /\ \E opt \in ConcSearcherOptions : NewSearcherOptions(opt)
    \/ \E c \in Callers, q \in ConcQueries, key \in ConcKeys :
          Enter(c, q[1], key, q[2])
    \/ \E c \in Callers : Limit(c)
    \/ \E c \in Callers : Lookup(c)
    \/ \E c \in Callers : Scan(c)

SpecConc == InitConc /\ [][NextConc]_vars

\* The index file alone, with no searcher: datasets whose keys and header
\* hold quotes, backslashes, tabs and bytes that are not UTF-8, indexes of
\* several entries written under every outcome of the file system, sidecars
\* of the four format versions bound to this dataset or to another one, and
\* sidecars cut short, lengthened or without a header field.
KeyQuote == <<34, 92>>
KeyTab == <<97, 9>>
KeyRaw == <<255>>
KeyUtf8 == <<195, 169>>
IndexKeySeqs ==
    {<<KeyA>>, <<KeyA, KeyA, KeyB>>, <<KeyQuote, KeyTab, KeyRaw>>,
     <<KeyRaw, KeyA>>, <<KeyUtf8, KeyA, KeyRaw>>}
IndexDataSets == {MkBytes(ks, 1, TRUE) : ks \in IndexKeySeqs}
IndexIndexOptions == {IndexOptions(5, <<>>, h) : h \in BOOLEAN}
IndexVersions == 1..indexVersion
ExtraEntry == [Key |-> <<122>>, Offset |-> 99]
HeaderFieldNames == {"Length", "Version"}

InitIndex == InitWith(IndexDataSets)

NextIndex ==
    \/ \E opt \in IndexIndexOptions, io \in WriteOutcomes : CallWrite(opt, io)
    \/ CallLoadIndex
    \/ Tick
    \/ \E d \in IndexDataSets : ModifyDataset(d)
    \/ RemoveSidecar
    \/ \E name \in {Base(DataPath), OtherName}, ver \in IndexVersions :
          InstallSidecar(name, ver)
    \/ \E k \in -1..MaxCut : TruncateSidecar(k)
    \/ AppendEntryLine(ExtraEntry)
    \/ \E f \in HeaderFieldNames : StripField(f)

SpecIndex == InitIndex /\ [][NextIndex]_vars

\* The index builder alone, on every small dataset and at block sizes from
\* one above the shortest line up to the default.
BuildBlockSizes == {0, 3, 4, 6}
BuildIndexOptions ==
    {IndexOptions(bs, <<>>, h) : bs \in BuildBlockSizes, h \in BOOLEAN}

\* Datasets with a line that has no delimiter: "a", "a" then "b,2", "a,1"
\* then "b", and "b,1" then "a".
BareDataSets ==
    {<<97, 10>>, <<97, 10, 98, 44, 50, 10>>, <<97, 44, 49, 10, 98, 10>>,
     <<98, 44, 49, 10, 97, 10>>}

BuildDataSets ==
    {MkBytes(ks, 1, nl) : ks \in KeySeqs(MaxBuildLines), nl \in BOOLEAN}
        \cup BareDataSets

InitBuild == InitWith(BuildDataSets)

NextBuild == \E opt \in BuildIndexOptions : CallNewIndexOptions(opt)

SpecBuild == InitBuild /\ [][NextBuild]_vars

\* One block lookup, step by step, on every sorted List of up to MaxEntries
\* entries with keys of several lengths, and keys that are in the List,
\* between its keys, below and above them, prefixes and extensions.
LookupEntryKeys == Keys
LookupKeys == Keys \cup {<<97, 97, 97>>, <<98, 97>>}

\* The List of an index with the given keys, entry j at offset 4 * (j - 1).
MkList(ks) == [j \in 1..Len(ks) |-> [Key |-> ks[j], Offset |-> 4 * (j - 1)]]

LookupLists ==
    {MkList(ks) : ks \in
        {q \in UNION {[1..m -> LookupEntryKeys] : m \in 1..MaxEntries} :
            \A j \in 1..(Len(q) - 1) : Compare(q[j], q[j + 1]) <= 0}}

InitLookup == InitWith({<<>>})

NextLookup ==
    \/ \E op \in {"blockEntryLE", "blockEntryLT"}, list \in LookupLists,
           key \in LookupKeys : EnterLookup(op, list, key)
    \/ Iterate
    \/ ReturnEntry

SpecLookup == InitLookup /\ [][NextLookup]_vars

\* A lookup that has started goes on: nothing but its own return ends it.
SpecLookupFair == SpecLookup /\ WF_vars(Iterate) /\ WF_vars(ReturnEntry)

\* The build and the write as two calls of one process, with the clock and
\* another process that modifies the dataset running between them and after
\* them, and LoadIndex called at any time.
StaleDataSets == {MkBytes(ks, 1, TRUE) : ks \in {<<KeyA>>, <<KeyB>>, <<KeyA, KeyB>>}}
StaleIndexOptions == {IndexOptions(4, <<>>, FALSE)}

InitStale == InitWith(StaleDataSets)

NextStale ==
    \/ \E opt \in StaleIndexOptions : CallNewIndexOptions(opt)
    \/ \E io \in WriteOutcomes : CallIndexWrite(io)
    \/ CallLoadIndex
    \/ Tick
    \/ \E d \in StaleDataSets : ModifyDataset(d)

SpecStale == InitStale /\ [][NextStale]_vars

\* ------------------------------------------------------ the dataset's lines

\* The data lines of the open searcher's dataset: its lines, without the
\* header line when the index has one.
DataLines ==
    IF s.Index.Header /\ ScanLines(s.mmap) # <<>>
    THEN Tail(ScanLines(s.mmap))
    ELSE ScanLines(s.mmap)

\* The key of a data line: its bytes before the first delimiter.
KeyOf(line) == SplitKey(line, s.Index.Delimiter)

\* The sort invariant: the keys of the data lines never descend.
SortInvariant ==
    \A i \in 1..(Len(DataLines) - 1) :
        Compare(KeyOf(DataLines[i]), KeyOf(DataLines[i + 1])) <= 0

\* The data lines with key k, in file order.
LinesWithKey(k) ==
    LET hasKey(line) == KeyOf(line) = k
    IN  SelectSeq(DataLines, hasKey)

\* The first n elements of a sequence.
FirstN(seq, n) == SubSeq(seq, 1, IF n < Len(seq) THEN n ELSE Len(seq))

\* The last call was a query on the open searcher.
Queried == s.state = "Ready" /\ ret.op \in {"Line", "Lines", "LinesN"}

\* ------------------------------------------------------------------ claims

\* C1: on a dataset that satisfies the sort invariant, Lines(k) for a key k
\* that some data line carries returns without error exactly the data lines
\* with key k, all of them, each once, in file order.
C1_LinesReturnsEveryLine ==
    (/\ s.state = "Ready"
     /\ ret.op = "Lines"
     /\ SortInvariant
     /\ LinesWithKey(ret.key) # <<>>)
    => (ret.err = "nil" /\ ret.lines = LinesWithKey(ret.key))

\* C2: with matchLE off, a query (Line, Lines or LinesN) for a key that no
\* data line carries returns the NotFound error and no line.
C2_AbsentKeyNotFound ==
    (/\ Queried
     /\ ~s.matchLE
     /\ SortInvariant
     /\ LinesWithKey(ret.key) = <<>>)
    => (ret.err = "ErrNotFound" /\ ret.lines = <<>>)

\* The query key holds no delimiter, as the key field of a line never does.
PlainKey == Index(ret.key, s.Index.Delimiter) = -1

LinesBelow(k) ==
    LET below(line) == Compare(KeyOf(line), k) = -1
    IN  SelectSeq(DataLines, below)

\* C4: with matchLE set and no data line with key k, the single-line query
\* returns a line with the greatest key below k, and NotFound only when no
\* data line has a key below k.
C4_MatchLEReturnsPredecessor ==
    (/\ s.state = "Ready"
     /\ ret.op \in {"Line", "LinesN"}
     /\ ret.n = 1
     /\ s.matchLE
     /\ SortInvariant
     /\ LinesWithKey(ret.key) = <<>>)
    => IF LinesBelow(ret.key) = <<>>
       THEN ret.err = "ErrNotFound"
       ELSE /\ ret.err = "nil"
            /\ Len(ret.lines) = 1
            /\ KeyOf(ret.lines[1]) =
                  KeyOf(LinesBelow(ret.key)[Len(LinesBelow(ret.key))])

\* C5: LinesN(k, n) with n > 0 returns the first min(n, c) of the c data
\* lines with key k, in file order, and so at most n lines; with n = 0
\* (Lines) it returns all c of them unless the index is KeysUnique, when it
\* returns the first.
C5_LinesNReturnsFirstN ==
    (/\ s.state = "Ready"
     /\ ret.op \in {"Lines", "LinesN"}
     /\ SortInvariant)
    => ret.lines =
          IF ret.n > 0 THEN FirstN(LinesWithKey(ret.key), ret.n)
          ELSE IF s.Index.KeysUnique THEN FirstN(LinesWithKey(ret.key), 1)
          ELSE LinesWithKey(ret.key)

\* The bytes of a line after its key and the delimiter.
ValueOf(line) == SliceFrom(line, Len(KeyOf(line)) + Len(s.Index.Delimiter))

\* C12: on a dataset that satisfies the sort invariant, DB.Get(k) returns
\* without error exactly the bytes that follow k and the delimiter in the
\* first data line with key k, returns NotFound when no data line has key k,
\* and never panics on its begins-with assertion.
C12_GetReturnsFirstValue ==
    (/\ s.state = "Ready"
     /\ ret.op = "Get"
     /\ SortInvariant)
    => IF LinesWithKey(ret.key) = <<>>
       THEN ret.err = "ErrNotFound" /\ ret.lines = <<>>
       ELSE ret.err = "nil" /\ ret.lines = <<ValueOf(LinesWithKey(ret.key)[1])>>

\* Get's sanity check never fails.
C12_AssertionNeverFails == ret.op = "Get" => ret.err # "assertion"

\* Get is right whenever the first data line's key is not empty and the
\* query does not run past the mapping.
C12_GetRightOtherwise ==
    (/\ s.state = "Ready"
     /\ ret.op = "Get"
     /\ SortInvariant
     /\ ret.err # "panic"
     /\ (DataLines # <<>> => KeyOf(DataLines[1]) # <<>>))
    => IF LinesWithKey(ret.key) = <<>>
       THEN ret.err = "ErrNotFound" /\ ret.lines = <<>>
       ELSE ret.err = "nil" /\ ret.lines = <<ValueOf(LinesWithKey(ret.key)[1])>>

\* ------------------------------------------------- claims about the open

\* The step is a call of NewSearcherOptions on a dataset it has mapped.
Opened == ret'.op = "NewSearcherOptions" /\ Len(data) > 0

\* What LoadIndex gives on the sidecar as the call finds it.
Loaded == LoadIndex(DataPath, sidecar, sidecarEpoch, dataEpoch)

\* What NewIndexOptions gives on the dataset under the caller's options.
Rebuilt(opt) ==
    NewIndexOptions(DataPath, IndexOptions(0, opt.Delimiter, opt.Header), data,
                    dataEpoch)

\* The sidecar is older than the dataset.
Expired == sidecar.exists /\ dataEpoch > sidecarEpoch

\* The sidecar names another file than the dataset, in its Filename or in
\* the basename of a legacy Filepath.
BoundElsewhere ==
    /\ sidecar.exists
    /\ derivePaths(Unmarshal(sidecar.header, sidecar.absent), DataPath).Filename
          # Base(DataPath)

\* The caller's explicit delimiter or explicit header flag differs from the
\* index's.
Disagrees(opt, index) ==
    \/ (Len(opt.Delimiter) > 0 /\ opt.Delimiter # index.Delimiter)
    \/ (opt.Header /\ ~index.Header)

\* The step returns a Ready searcher whose index was rebuilt under opt from
\* the dataset and written to the sidecar.
RebuiltAndWritten(opt) ==
    /\ ret'.err = "nil"
    /\ s'.state = "Ready"
    /\ ret'.built
    /\ ret'.wrote
    /\ sidecar' = writtenSidecar(Rebuilt(opt).index)
    /\ s'.Index = [Rebuilt(opt).index EXCEPT !.Filepath = NoPath]

\* The step returns no searcher and leaves the sidecar as it was, building
\* and writing nothing.
NothingBuilt ==
    /\ s'.state # "Ready"
    /\ ~ret'.sr
    /\ ~ret'.built
    /\ ~ret'.wrote
    /\ sidecar' = sidecar
    /\ sidecarEpoch' = sidecarEpoch

\* C6: opening a dataset whose sidecar is missing, the index location being
\* writable and the dataset indexable, builds the index, writes the sidecar
\* and returns a Ready searcher without error.
C6_MissingSidecarIsRebuilt ==
    [][(/\ Opened
        /\ ~sidecar.exists
        /\ writable
        /\ Rebuilt(ret'.opt).err = "nil")
       => RebuiltAndWritten(ret'.opt)]_vars

\* C7: opening a dataset whose sidecar is expired or bound to a different
\* filename, the sidecar being writable and the dataset indexable, rebuilds
\* the index from the dataset and rewrites the sidecar; the open succeeds and
\* LoadIndex on the unchanged dataset then succeeds.
C7_StaleSidecarIsRebuilt ==
    [][(/\ Opened
        /\ sidecar.exists
        /\ writable
        /\ (Expired \/ BoundElsewhere)
        /\ Rebuilt(ret'.opt).err = "nil")
       => (/\ RebuiltAndWritten(ret'.opt)
           /\ LoadIndex(DataPath, sidecar', sidecarEpoch', dataEpoch').err = "nil")]_vars

\* The returned searcher's index carries the caller's explicit delimiter and
\* header flag.
CarriesOptions(opt) ==
    /\ Len(opt.Delimiter) > 0 => s'.Index.Delimiter = opt.Delimiter
    /\ opt.Header => s'.Index.Header

C9_UnwritableReturnsLoadError ==
    [][(/\ Opened
        /\ ~writable
        /\ Loaded.err \in {"ErrIndexNotFound", "ErrIndexExpired",
                           "ErrIndexPathMismatch"})
       => (ret'.err = Loaded.err /\ NothingBuilt)]_vars

\* C9 (witness): an open has returned IndexExpired or IndexPathMismatch for
\* a sidecar that could not be written, and has built nothing.
C9_Witness ==
    /\ ret.op = "NewSearcherOptions"
    /\ ~writable
    /\ ~ret.built
    /\ ret.err \in {"ErrIndexExpired", "ErrIndexPathMismatch"}
    /\ sidecar.exists

\* C10: Close moves a Ready searcher to Closed, and after it neither the
\* mapping nor the file handle that NewSearcherOptions acquired is live.
C10_CloseReleasesMapping ==
    ret.op = "Close" => (s.state = "Closed" /\ ~fdOpen /\ ~mmapLive)

\* ---------------------------------------------- claims about concurrency

\* What the call would return on the searcher with no other query running.
Alone(call) ==
    IF call.op = "Line" THEN Line(s, call.key) ELSE LinesN(s, call.key, call.n)

\* The call has ended.
Ended(call) == call.pc \in {"done", "panicked", "killed"}

\* The step belongs to a query.
QueryStep == calls' # calls

\* No step of a query changes the searcher (its index, mapping and options),
\* the dataset or the sidecar.
C11_QueriesLeaveSearcherAlone ==
    [][QueryStep => (s' = s /\ data' = data /\ sidecar' = sidecar)]_vars

\* Every query that has returned has returned what it returns when run alone.
C11_ReturnedQueriesAgree ==
    \A c \in Callers :
       calls[c].pc \in {"done", "panicked"}
          => (calls[c].err = Alone(calls[c]).err
              /\ calls[c].lines = Alone(calls[c]).lines)

\* C11: no step of a query on a Ready searcher changes the searcher, and
\* under every interleaving of the callers' queries each query ends by
\* returning the result it returns when run alone.
C11_ConcurrentQueriesRunAsAlone ==
    [][QueryStep =>
         (/\ s' = s
          /\ \A c \in Callers :
                Ended(calls'[c])
                   => (/\ calls'[c].pc # "killed"
                       /\ calls'[c].err = Alone(calls'[c]).err
                       /\ calls'[c].lines = Alone(calls'[c]).lines))]_vars

\* -------------------------------------------- claims about the index file

\* The sidecar's header as LoadIndex reads it.
SidecarHeader == derivePaths(Unmarshal(sidecar.header, sidecar.absent), DataPath)

\* LoadIndex has just been called on a sidecar that is older than the
\* dataset.
LoadedExpired == ret.op = "LoadIndex" /\ sidecar.exists /\ dataEpoch > sidecarEpoch

\* C13 (as stated): whenever the dataset's modification time, in seconds,
\* exceeds the sidecar's, LoadIndex returns IndexExpired and no Index.
C13_NewerDatasetExpiresIndex ==
    LoadedExpired => (ret.err = "ErrIndexExpired" /\ ret.index = ZeroIndex)

\* C13 (amended): whenever the dataset's modification time, in seconds,
\* exceeds the sidecar's, LoadIndex returns no Index and an error: io.EOF
\* when the sidecar ends before the end of its header line, else
\* IndexPathMismatch when the header is of version 4 or later and names
\* another file than the dataset, and IndexExpired in every other case,
\* whatever the entry lines hold.
C13_NewerDatasetExpiresBoundIndex ==
    LoadedExpired =>
        /\ ret.index = ZeroIndex
        /\ ret.err = IF ~sidecar.headerLine THEN "EOF"
                     ELSE IF /\ SidecarHeader.Version >= 4
                             /\ SidecarHeader.Filename # Base(DataPath)
                     THEN "ErrIndexPathMismatch"
                     ELSE "ErrIndexExpired"

\* C13 (witness): LoadIndex has returned IndexExpired for a sidecar older
\* than the dataset.
C13_Witness == LoadedExpired /\ ret.err = "ErrIndexExpired"

\* LoadIndex has just been called on a sidecar with a whole header line
\* that names another file than the dataset.
LoadedBoundElsewhere ==
    /\ ret.op = "LoadIndex"
    /\ sidecar.exists
    /\ sidecar.headerLine
    /\ SidecarHeader.Filename # Base(DataPath)

\* C14: LoadIndex fails with IndexPathMismatch whenever the filename the
\* sidecar is bound to (its Filename, or the basename of a legacy Filepath)
\* differs from the dataset's basename, whatever the index version.
C14_MismatchIsRejected ==
    LoadedBoundElsewhere => (ret.err = "ErrIndexPathMismatch" /\ ret.index = ZeroIndex)

\* The same for the sidecars of version 4 and later only.
C14_MismatchIsRejectedFromVersion4 ==
    (LoadedBoundElsewhere /\ SidecarHeader.Version >= 4)
        => (ret.err = "ErrIndexPathMismatch" /\ ret.index = ZeroIndex)

\* The fields of an Index that its sidecar's header persists, those of them
\* other than HeaderFields, and the agreement of two Indexes on a set of
\* fields.
PersistedFields ==
    {"Blocksize", "Delimiter", "Epoch", "Filename", "Header", "HeaderFields",
     "KeysUnique", "KeysIndexFirst", "Length", "Version"}
PersistedButHeaderFields == PersistedFields \ {"HeaderFields"}
AgreeOn(a, b, fields) == \A f \in fields : a[f] = b[f]

\* The step is a LoadIndex that follows a Write that returned no error, with
\* nothing in between.
LoadAfterWrite == ret.op = "Write" /\ ret.err = "nil" /\ ret'.op = "LoadIndex"

\* C15: Index.Write followed by LoadIndex on the unchanged dataset yields
\* without error an Index equal to the written one in every persisted field
\* (blocksize, delimiter, epoch, filename, header, headerFields, keysUnique,
\* keysIndexFirst, length, version) and with the same entry list, whatever
\* bytes the keys hold.
C15_WriteLoadRoundTrip ==
    [][LoadAfterWrite =>
         (/\ ret'.err = "nil"
          /\ AgreeOn(ret'.index, ret.index, PersistedFields)
          /\ ret'.index.List = ret.index.List)]_vars

\* What does round-trip: when the whole file reached the disk, the entry
\* list and every persisted field but HeaderFields come back as written.
C15_EntriesRoundTrip ==
    [][(LoadAfterWrite /\ ret.io = "ok") =>
         (/\ ret'.err = "nil"
          /\ AgreeOn(ret'.index, ret.index, PersistedButHeaderFields)
          /\ ret'.index.List = ret.index.List)]_vars

\* The entry list that came back held keys with a quote, a backslash, a tab
\* and a byte that is not UTF-8.
C15_SpecialKeysLoaded ==
    /\ ret.op = "LoadIndex"
    /\ ret.err = "nil"
    /\ \E j \in 1..Len(ret.index.List) : ret.index.List[j].Key = KeyQuote
    /\ \E j \in 1..Len(ret.index.List) : ret.index.List[j].Key = KeyRaw

\* The lines after the sidecar's header line, a last one without its record
\* separator included, and whether each has its separator.
EntryLines == ScanLines(sidecar.body)
EntryLinesWhole ==
    sidecar.body = <<>> \/ sidecar.body[Len(sidecar.body)] = recordSeparator

\* LoadIndex has just returned an Index.
LoadSucceeded == ret.op = "LoadIndex" /\ ret.err = "nil"

\* C16: LoadIndex succeeds only if exactly Length well-formed entry lines
\* follow the header: a sidecar that was cut short, or that holds another
\* number of entry lines than its Length, is rejected.
C16_LoadNeedsExactlyLengthLines ==
    LoadSucceeded =>
        (/\ EntryLinesWhole
         /\ Len(EntryLines) = SidecarHeader.Length
         /\ sidecar.body = entryRecords(ret.index.List, 1))

\* The half that holds: LoadIndex succeeds only if at least Length whole
\* entry lines follow the header, and it returns the entries of the first
\* Length of them.
C16_LoadNeedsLengthLines ==
    LoadSucceeded =>
        (/\ Len(EntryLines) - (IF EntryLinesWhole THEN 0 ELSE 1)
               >= SidecarHeader.Length
         /\ Len(ret.index.List) = SidecarHeader.Length
         /\ HasPrefix(sidecar.body, entryRecords(ret.index.List, 1)))

\* LoadIndex has rejected as malformed a sidecar that was cut short.
C16_TruncatedRejected ==
    /\ ret.op = "LoadIndex"
    /\ ret.err = "malformed index"
    /\ Len(EntryLines) - (IF EntryLinesWhole THEN 0 ELSE 1) < SidecarHeader.Length

\* C17: LoadIndex on a sidecar whose header has no Length field loads every
\* entry line that is present, and on one whose header has no Version field
\* returns an Index of Version 1.
C17_LegacyHeaderDefaults ==
    LoadSucceeded =>
        (/\ "Length" \in sidecar.absent
               => (/\ Len(ret.index.List) = Len(EntryLines)
                   /\ sidecar.body = entryRecords(ret.index.List, 1))
         /\ "Version" \in sidecar.absent => ret.index.Version = 1)

\* The half that holds: a header with no Version field gives Version 1.
C17_NoVersionIsVersion1 ==
    (LoadSucceeded /\ "Version" \in sidecar.absent) => ret.index.Version = 1

\* A header with no Length field gives an Index with no entries.
C17_NoLengthLoadsNothing ==
    (LoadSucceeded /\ "Length" \in sidecar.absent)
        => (ret.index.List = <<>> /\ ret.index.Length = 0)

\* LoadIndex has returned an Index for a header with neither field.
C17_LegacyHeaderLoaded ==
    LoadSucceeded /\ sidecar.absent = {"Length", "Version"} /\ EntryLines # <<>>

\* The step is a call of Index.Write.
Wrote == ret'.op = "Write"

\* After the step the sidecar holds the header and every entry line of the
\* written Index, or else no partial index: the file is gone, or it is as it
\* was before the call.
WholeOrNothing ==
    IF ret'.err = "nil" THEN sidecar' = writtenSidecar(ret'.index)
    ELSE sidecar' = NoSidecar \/ sidecar' = sidecar

\* C18: when Index.Write returns, the sidecar path does not hold a partial
\* index: after an error the partial file has been removed, and after a nil
\* return the header and all Length entry lines are in the file.
C18_WriteLeavesNoPartialIndex == [][Wrote => WholeOrNothing]_vars

\* The same for the calls in which the write made by Flush does not fail.
C18_WholeUnlessFlushFails ==
    [][(Wrote /\ ret'.io # "flush") => WholeOrNothing]_vars

\* Write has returned an error and removed the file.
C18_AbortedWrite == ret.op = "Write" /\ ret.err = "EIO" /\ ~sidecar.exists

\* ------------------------------------------- claims about the built index

\* NewIndexOptions has just returned an Index.
Built == ret.op = "NewIndexOptions" /\ ret.err = "nil"

\* C19: in every index that was built without error, each entry's key is at
\* most the next entry's key and each entry's offset is below the next
\* entry's offset.
C19_EntriesAscend ==
    Built =>
        \A j \in 1..(Len(ret.index.List) - 1) :
            /\ Compare(ret.index.List[j].Key, ret.index.List[j + 1].Key) <= 0
            /\ ret.index.List[j].Offset < ret.index.List[j + 1].Offset


\* The lines of the dataset, the offset at which line j starts, and the
\* numbers of the data lines (all lines but the header line of an index
\* that has one).
FileLines == ScanLines(data)

RECURSIVE OffsetOfLine(_)
OffsetOfLine(j) ==
    IF j <= 1 THEN 0 ELSE OffsetOfLine(j - 1) + Len(FileLines[j - 1]) + 1

BuiltDataLines == {j \in 1..Len(FileLines) : ~(ret.index.Header /\ j = 1)}

\* The key of line j under the built index's delimiter, and the data lines
\* with key k.
BuiltKey(j) == SplitKey(FileLines[j], ret.index.Delimiter)
BuiltLinesWith(k) == {j \in BuiltDataLines : BuiltKey(j) = k}

\* The block in which line j starts.
BlockOf(j) == OffsetOfLine(j) \div ret.index.Blocksize

\* The lines with key k start in more than one block.
SpansBlocks(k) ==
    \E i, j \in BuiltLinesWith(k) : BlockOf(i) # BlockOf(j)

\* The entries of the built index with key k.
EntriesWith(k) == {j \in 1..Len(ret.index.List) : ret.index.List[j].Key = k}

\* C19 (witness): an index of three entries has been built from a dataset
\* in which the lines of one key start in more than one block.
C19_Witness ==
    /\ Built
    /\ Len(ret.index.List) >= 3
    /\ \E j \in BuiltDataLines : SpansBlocks(BuiltKey(j))

\* Every entry of the built index points at the first data line with its key.
EntriesPointAtFirst ==
    \A j \in 1..Len(ret.index.List) :
        /\ BuiltLinesWith(ret.index.List[j].Key) # {}
        /\ ret.index.List[j].Offset =
              OffsetOfLine(SetMin(BuiltLinesWith(ret.index.List[j].Key)))

\* The keys of the data lines never descend.
BuiltSorted ==
    \A i, j \in BuiltDataLines : i < j => Compare(BuiltKey(i), BuiltKey(j)) <= 0

\* C20: in an index built from a dataset that satisfies the sort invariant,
\* every entry (k, o) has for o the byte offset of the first data line with
\* key k, and a key whose lines start in more than one block has exactly one
\* entry.
C20_EntriesPointAtFirstLine ==
    (Built /\ BuiltSorted) =>
        (/\ EntriesPointAtFirst
         /\ \A j \in BuiltDataLines :
               SpansBlocks(BuiltKey(j)) => Cardinality(EntriesWith(BuiltKey(j))) = 1)

\* The same for the keys other than the empty key.
C20_NonEmptyKeysPointAtFirstLine ==
    (Built /\ BuiltSorted) =>
        (/\ EntriesPointAtFirst
         /\ \A j \in BuiltDataLines :
               (SpansBlocks(BuiltKey(j)) /\ BuiltKey(j) # <<>>)
                   => Cardinality(EntriesWith(BuiltKey(j))) = 1)

\* Two data lines of the dataset have the same key.
SharedKey == \E i, j \in BuiltDataLines : i # j /\ BuiltKey(i) = BuiltKey(j)

\* C21: in every index that was built without error, KeysUnique is true if
\* and only if no two data lines of the dataset (the header line excluded)
\* have the same key.
C21_KeysUniqueIffNoSharedKey ==
    Built => (ret.index.KeysUnique <=> ~SharedKey)

\* The same for the sorted datasets whose first data line has a key that is
\* not empty.
C21_KeysUniqueUnlessEmptyFirstKey ==
    (Built /\ BuiltSorted
       /\ \A j \in BuiltDataLines : BuiltKey(j) # <<>>)
        => (ret.index.KeysUnique <=> ~SharedKey)

\* An index has been built from a sorted dataset without an empty key in
\* which two lines share a key, and its KeysUnique is false.
C21_SharedKeyBuilt ==
    /\ Built /\ BuiltSorted /\ SharedKey /\ ~ret.index.KeysUnique
    /\ \A j \in BuiltDataLines : BuiltKey(j) # <<>>

\* ------------------------------------------- claims about failing builds

\* NewIndexOptions has just returned, with an Index or with an error.
Called == ret.op = "NewIndexOptions"

\* The header option, the delimiter and the block size of that build.
Declared == ret.idxopt.Header
BuildDelimiter ==
    IF Len(ret.idxopt.Delimiter) = 0 THEN deriveDelimiter(DataPath).delim
    ELSE ret.idxopt.Delimiter
BuildBlocksize ==
    IF ret.idxopt.Blocksize > 0 THEN ret.idxopt.Blocksize ELSE defaultBlocksize

\* The key of line j, and the lines the build takes for data lines: all of
\* them but a declared header line.
LineKey(j) == SplitKey(FileLines[j], BuildDelimiter)
KeyedLines == {j \in 1..Len(FileLines) : ~(Declared /\ j = 1)}

\* The lines whose key is below the key of the line before them.
Descents ==
    {j \in KeyedLines : j - 1 \in KeyedLines
                          /\ Compare(LineKey(j - 1), LineKey(j)) = 1}

\* Every line is shorter than the block size, and has a delimiter.
LinesFit == \A j \in 1..Len(FileLines) : Len(FileLines[j]) < BuildBlocksize
Delimited(j) == Index(FileLines[j], BuildDelimiter) > -1

\* The build took the first line for a header and restarted at the second.
SecondRecordTolerated ==
    /\ ret.err = "nil"
    /\ ret.index.Header
    /\ ret.index.HeaderFields = Split(FileLines[1], BuildDelimiter)
    /\ ret.index.List[1] = [Key |-> LineKey(2), Offset |-> OffsetOfLine(2)]

\* The build failed on the order of the keys and gave no index.
SortViolation == ret.err = "KeySortViolation" /\ ret.index = ZeroIndex

\* C22: in a build with no header declared, a line whose key is below the
\* key of the line before it is tolerated only as the second line of the
\* file: the first line becomes the header, its fields the header fields,
\* and the entries restart from the second line.  A descending pair of
\* adjacent keys anywhere else, or with a header declared, ends the build
\* with KeySortViolation and no index.  (Datasets whose lines all fit the
\* scanner's buffer.)
C22_OnlySecondRecordTolerated ==
    (Called /\ LinesFit) =>
        /\ (~Declared /\ Descents = {2}) => SecondRecordTolerated
        /\ (Descents # {} /\ (Declared \/ Descents # {2})) => SortViolation

\* The part of C22 about the second line, and about a declared header.
C22_SecondRecordTolerated ==
    (Called /\ LinesFit) =>
        /\ (~Declared /\ Descents = {2}) => SecondRecordTolerated
        /\ (Descents # {} /\ Declared) => SortViolation

\* A build with no header declared has met a descending pair at the second
\* line only, in a dataset of three lines or more.
C22_SecondRecordSeen ==
    Called /\ LinesFit /\ ~Declared /\ Descents = {2} /\ Len(FileLines) >= 3

\* Some data line has no delimiter: a line other than the header line,
\* declared or detected.
BareDataLine ==
    \E j \in KeyedLines : ~Delimited(j) /\ ~(ret.index.Header /\ j = 1)

\* C23: a build fails, and yields no index, whenever some data line of the
\* dataset contains no delimiter.
C23_BareLineFailsBuild ==
    (Called /\ BareDataLine) => (ret.err # "nil" /\ ret.index = ZeroIndex)

\* What the build does with such a line: the whole line is its key.
C23_BareLineIsItsKey ==
    (Built /\ BareDataLine) =>
        \A j \in 1..Len(ret.index.List) :
            \E i \in BuiltDataLines :
                /\ ret.index.List[j].Offset = OffsetOfLine(i)
                /\ ret.index.List[j].Key = LineKey(i)
                /\ (~Delimited(i) => LineKey(i) = FileLines[i])

\* Some line is as long as the block size, or longer.
LongLine == \E j \in 1..Len(FileLines) : Len(FileLines[j]) >= BuildBlocksize

\* C27: a build on a sorted dataset does not fail for a line that is as long
\* as the block size or longer: the scanner's buffer holds the longest line,
\* and the scan never ends with "token too long".
C27_LongLineDoesNotFailBuild ==
    (Called /\ Descents = {}) => ret.err # "ErrTooLong"

\* The scan ends with "token too long" exactly when some line is not shorter
\* than the block size and no earlier line has ended the build.
C27_TooLongIffLongLine ==
    Called =>
        /\ ret.err = "ErrTooLong" => LongLine
        /\ (LongLine /\ Descents = {}) => ret.err = "ErrTooLong"

\* ------------------------------------------------ claims about long keys

\* The bytes of the mapping from the start of its last line on.
LastLineBytes ==
    IF Len(s.mmap) = 0 THEN 0
    ELSE Len(ScanLines(s.mmap)[Len(ScanLines(s.mmap))])
           + (IF s.mmap[Len(s.mmap)] = recordSeparator THEN 1 ELSE 0)

\* C26: the index-driven query path sets no limit on the key's length: for
\* every dataset and every key, also a key longer than the block size or
\* longer than the bytes that remain after a scanned line start, the query
\* returns lines or NotFound, and no slice of the mapped data goes out of
\* the data's bounds.
C26_QueriesStayInBounds ==
    Queried => ret.err \in {"nil", "ErrNotFound"}

\* A query leaves the data's bounds only with a key longer than what remains
\* of the data at the start of its last line, and a key not longer than that
\* is served whatever the block size.
C26_OutOfBoundsOnlyPastEnd ==
    (Queried /\ ret.err \notin {"nil", "ErrNotFound"}) =>
        (ret.err = "panic" /\ Len(ret.key) > LastLineBytes)

\* A key longer than the block size has been served.
C26_KeyLongerThanBlockServed ==
    /\ Queried
    /\ Len(ret.key) > s.Index.Blocksize
    /\ ret.err \in {"nil", "ErrNotFound"}

\* ------------------------------------ claims about what an open returns

\* C28: NewSearcherOptions returns exactly one of a Searcher and an error;
\* in particular the error is not nil when the sidecar loads but disagrees
\* with the caller's explicit delimiter or header and cannot be written.
C28_SearcherOrError ==
    ret.op = "NewSearcherOptions" => (ret.sr <=> ret.err = "nil")

\* The loaded sidecar disagrees with the caller's options and cannot be
\* written.
UnwritableDisagreement ==
    /\ Loaded.err = "nil"
    /\ Disagrees(ret'.opt, Loaded.index)
    /\ ~accessWritable(sidecar, writable)

\* In every other case the open returns exactly one of the two, and in that
\* case it returns neither.
C28_SearcherOrErrorOtherwise ==
    [][ret'.op = "NewSearcherOptions" =>
          IF Opened /\ UnwritableDisagreement
          THEN ~ret'.sr /\ ret'.err = "nil"
          ELSE ret'.sr <=> ret'.err = "nil"]_vars

\* ------------------------------------------- claims about the block lookups

\* blockEntryLE, or blockEntryLT, has returned.
Found(op) == ret.op = op /\ ret.loop.pc = "done"

\* The List looked up, and whether its keys never descend.
LookedUp == ret.index.List
SortedList ==
    \A j \in 1..(Len(LookedUp) - 1) :
        Compare(LookedUp[j].Key, LookedUp[j + 1].Key) <= 0

\* C24: on a List sorted by key, blockEntryLE returns NotFound if the first
\* entry's key is above the key; otherwise it returns the position i and the
\* entry list[i] with list[i].key <= key and either i the last position or
\* list[i+1].key > key.
C24_BlockEntryLE ==
    (Found("blockEntryLE") /\ SortedList) =>
        /\ blockEntryLE(ret.index, ret.key) = ret.be
        /\ IF Compare(LookedUp[1].Key, ret.key) = 1
           THEN ret.be.err = "ErrNotFound"
           ELSE /\ ret.be.err = "nil"
                /\ ret.be.e \in 0..(Len(LookedUp) - 1)
                /\ ret.be.entry = LookedUp[ret.be.e + 1]
                /\ Compare(ret.be.entry.Key, ret.key) <= 0
                /\ \/ ret.be.e = Len(LookedUp) - 1
                   \/ Compare(LookedUp[ret.be.e + 2].Key, ret.key) = 1

\* C24 (witness): blockEntryLE has returned an entry in the middle of a List
\* for a key that is between that entry's key and the next, and NotFound for
\* a key below the first entry's.
C24_Witness ==
    /\ Found("blockEntryLE")
    /\ Len(LookedUp) >= 3
    /\ ret.be.err = "nil"
    /\ ret.be.e > 0
    /\ ret.be.e < Len(LookedUp) - 1
    /\ ret.be.entry.Key # ret.key

\* The positions whose key is below the key under plain bytewise ordering.
Below == {j \in 1..Len(LookedUp) : Compare(LookedUp[j].Key, ret.key) = -1}

\* C25: on a List sorted by key, blockEntryLT returns the greatest position
\* whose key is below the key under plain bytewise ordering, and position 0
\* when no key is below it; its prefixCompare test is bytewise less-than for
\* entry keys shorter and longer than the key alike.
C25_BlockEntryLT ==
    (Found("blockEntryLT") /\ SortedList) =>
        /\ blockEntryLT(ret.index, ret.key) = ret.be
        /\ ret.be.err = "nil"
        /\ ret.be.e \in 0..(Len(LookedUp) - 1)
        /\ ret.be.entry = LookedUp[ret.be.e + 1]
        /\ \A j \in 1..Len(LookedUp) :
              (prefixCompare(LookedUp[j].Key, ret.key) = -1) <=> (j \in Below)
        /\ IF Below = {} THEN ret.be.e = 0
           ELSE /\ ret.be.e + 1 \in Below
                /\ \A j \in Below : j <= ret.be.e + 1

\* C25 (witness): blockEntryLT has returned a position other than 0 whose
\* key is shorter than the key and a prefix of it, on a List that also holds
\* a key longer than the key.
C25_Witness ==
    /\ Found("blockEntryLT")
    /\ ret.be.e > 0
    /\ Len(ret.be.entry.Key) < Len(ret.key)
    /\ HasPrefix(ret.key, ret.be.entry.Key)
    /\ \E j \in 1..Len(LookedUp) : Len(LookedUp[j].Key) > Len(ret.key)

\* A step that runs the loop body.
Iteration ==
    /\ ret.loop.pc = "loop"
    /\ ret.loop.end - ret.loop.begin > 0
    /\ ret' # ret

\* C30: the binary-search loops of blockEntryLE and blockEntryLT terminate
\* for every List that is not empty and every key: in each iteration mid is
\* a position of the List with begin < mid <= end, and the iteration raises
\* begin, lowers end or leaves the loop; and every lookup that has started
\* returns.
C30_LoopsTerminate ==
    /\ [][Iteration =>
            /\ ret'.loop.mid \in 0..(Len(LookedUp) - 1)
            /\ ret.loop.begin < ret'.loop.mid
            /\ ret'.loop.mid <= ret.loop.end
            /\ \/ ret'.loop.begin > ret.loop.begin /\ ret'.loop.end = ret.loop.end
               \/ ret'.loop.end < ret.loop.end /\ ret'.loop.begin = ret.loop.begin
               \/ ret'.loop.pc = "done"]_vars
    /\ (ret.loop.pc = "loop") ~> (ret.loop.pc = "done")

\* C30 (witness): a lookup has returned after its loop both raised begin and
\* lowered end.
C30_Witness ==
    /\ ret.loop.pc = "done"
    /\ ret.loop.begin > 0
    /\ ret.loop.end < Len(LookedUp) - 1

\* ------------------------------------------------ claims about staleness

\* LoadIndex is called right after a Write that wrote the whole sidecar.
LoadAfterWholeWrite ==
    /\ ret.op = "Write"
    /\ ret.err = "nil"
    /\ ret.io = "ok"
    /\ ret'.op = "LoadIndex"

\* C29: under any interleaving of index build, sidecar write and dataset
\* modification, an Index is discarded as stale whenever the dataset was
\* modified after the build scanned it, even before Write has finished: the
\* next LoadIndex returns IndexExpired, not entries computed from the old
\* content.
C29_ModifiedAfterScanExpires ==
    [][(LoadAfterWholeWrite /\ ret.modified)
         => ret'.err = "ErrIndexExpired"]_vars

\* What LoadIndex compares is the dataset's modification time with the
\* sidecar file's: the index is discarded exactly when the dataset was
\* modified in a later second than the one the Write ended in.
C29_ExpiredIffModifiedAfterWrite ==
    [][LoadAfterWholeWrite
         => (ret'.err = "ErrIndexExpired" <=> dataEpoch > sidecarEpoch)]_vars

\* LoadIndex has returned entries that are not those of the dataset as it is.
C29_StaleEntriesLoaded ==
    /\ ret.op = "LoadIndex"
    /\ ret.err = "nil"
    /\ \A opt \in StaleIndexOptions :
          ret.index.List # NewIndexOptions(DataPath, opt, data, dataEpoch).index.List

====
